---- MODULE Spec2Model ----
(***************************************************************************)
(* Model of the consolidation engine of sergio-ar-api:                     *)
(*   - row mapping of a roster sheet (carry-forward, date filter),         *)
(*   - reconciliation of the two roster snapshots,                         *)
(*   - the sort and the start-date filter,                                 *)
(*   - persistence of teachers and schedules by background tasks,          *)
(*   - mapping of the second roster sheet after the first,                 *)
(*   - mapping and persistence of the billing rows (invoices),             *)
(*   - staging of the uploaded files and their reading by the tasks,       *)
(*   - the efficiency report and the consolidated report.                  *)
(* Sources: src/src/routes/consolidator/upload_and_process.rs,             *)
(*   src/src/routes/efficiency/generate_efficiency_report.rs,              *)
(*   src/src/routes/efficiency/generate_consolidated_report.rs             *)
(***************************************************************************)
EXTENDS Integers, Sequences, FiniteSets, TLC

VARIABLES
    \* ---- row mapping of one roster sheet (consolidate_files, lines 247-356)
    sheet,                \* the rows of the sheet, each a sequence of cells
    map_pc,               \* "idle" | "mapping" | "mapped" | "mapped_both" | "panicked"
    current_row,          \* the loop counter current_row
    temps,                \* the five carry-forward variables *_temp
    mapped_src,           \* sheet index of the source row of each pushed row
    \* ---- reconciliation (consolidate_files, lines 707-980)
    process_date,         \* the date of the request, "YYYY-MM-DD" split at "-"
    first_dialogue_rows,  \* filtered rows of the first snapshot
    second_dialogue_rows, \* filtered rows of the second snapshot
    rec_pc,               \* "idle" | "split" | "consolidated" | "sorted" | "filtered"
    consolidated_rows,    \* the Vec consolidated_rows
    \* ---- persistence (consolidate_files, lines 986-1134)
    teachers,             \* table teachers: sequence of [id, name]
    schedules,            \* table schedules: sequence of rows
    tasks,                \* the spawned consolidate_files tasks, in spawn order
    spawned,              \* number of tasks spawned so far
    \* ---- row mapping of the second roster sheet (lines 358-460)
    second_sheet,         \* the rows of the second sheet
    second_src,           \* sheet index of the source row of each pushed row
    \* ---- billing rows (consolidate_files, lines 469-700)
    invoicing_sheet,      \* the records of the billing export of the run
    invoices,             \* table invoices: sequence of rows
    inv_runs,             \* the invoice loops run so far, the last one current
    \* ---- staging (upload_and_process, store_files, lines 55-162, 168-244)
    files,                \* temp/<date>/<name>: the upload whose bytes it holds
    requests,             \* the upload requests, in arrival order
    readers,              \* the spawned tasks' reading of the staged files
    \* ---- reports (generate_efficiency_report, generate_consolidated_report)
    overflow_checks,      \* the build: TRUE panics on integer overflow, FALSE wraps
    efficiency,           \* the locals of a generate_efficiency_report call
    consolidated          \* the locals of a generate_consolidated_report call

vars == << sheet, map_pc, current_row, temps, mapped_src,
           process_date, first_dialogue_rows, second_dialogue_rows, rec_pc,
           consolidated_rows, teachers, schedules, tasks, spawned,
           second_sheet, second_src, invoicing_sheet, invoices, inv_runs,
           files, requests, readers,
           overflow_checks, efficiency, consolidated >>

map_vars == << sheet, map_pc, current_row, temps, mapped_src >>
rec_vars == << rec_pc, consolidated_rows >>
db_vars  == << teachers, schedules, tasks, spawned >>
sheet2_vars == << second_sheet, second_src >>
inv_vars    == << invoicing_sheet, invoices, inv_runs >>
stage_vars  == << files, requests, readers >>
report_vars == << overflow_checks, efficiency, consolidated >>
more_vars   == << sheet2_vars, inv_vars, stage_vars, report_vars >>

(***************************************************************************)
(* Bounds and value universes                                              *)
(***************************************************************************)
MaxData == 2     \* data rows of a sheet (between title block and summary)
MaxSnap == 2     \* rows of a filtered snapshot given to reconciliation
MaxRuns == 2     \* consolidation tasks spawned in one behaviour

Groups   == {"A", "B"}
Shifts   == {"S1", "S2"}
Teachers == {"Alice", "Bob"}

\* Byte-wise lexical order of the strings used (String::cmp).
LexOrder == << "", "-", "A", "Alice", "B", "Bob", "Dropped",
               "Dropped & Picked Up", "Internal Pickup", "Pickup", "S1", "S2" >>

StrRank(s) == CHOOSE i \in 1..Len(LexOrder) : LexOrder[i] = s

\* A date cell "M/D/YYYY H:MM AM" as its pieces: split(" ") gives three
\* tokens, the first split("/") gives three, the second split(":") gives two.
\* The blank cell is the empty sequence.
DateText(a, b, y, hh, mm, p) == << <<a, b, y>>, <<hh, mm>>, p >>
Blank == << >>

ProcessDates == { <<2024, 3, 1>>, <<2024, 1, 3>> }

\* Start and end cells of the roster export (US style, month first).
Mar1Start == DateText(3, 1, 2024, 9, 0, "AM")
Mar1End   == DateText(3, 1, 2024, 12, 30, "PM")
Jan3Start == DateText(1, 3, 2024, 9, 0, "AM")
Jan3End   == DateText(1, 3, 2024, 12, 30, "PM")
Feb29Late == DateText(2, 29, 2024, 11, 0, "PM")
Mar1Early == DateText(3, 1, 2024, 1, 0, "AM")

(***************************************************************************)
(* Date normalisation                                                      *)
(***************************************************************************)
IsLeap(y) == (y % 4 = 0 /\ y % 100 # 0) \/ y % 400 = 0

DaysInMonth(y, m) ==
    IF m \in {4, 6, 9, 11} THEN 30
    ELSE IF m = 2 THEN (IF IsLeap(y) THEN 29 ELSE 28)
    ELSE 31

\* NaiveDateTime::parse_from_str(.., "%d/%m/%Y ..") succeeds
ValidDate(y, m, d) == m \in 1..12 /\ d \in 1..DaysInMonth(y, m)

\* process_date = "YYYY-MM-DD": split("-") [2] is the day, [1] the month,
\* [0] the year; parsed as "%d/%m/%Y 00:00:00".
ParseProcessDate(pd) == [year |-> pd[1], month |-> pd[2], day |-> pd[3]]

\* The date part of a cell: split(" ")[0], then split("/") [1] is the day,
\* [0] the month, [2] the year. A blank cell has no index 1: panic.
CanParseDay(text) ==
    /\ Len(text) >= 1
    /\ Len(text[1]) >= 3
    /\ ValidDate(text[1][3], text[1][1], text[1][2])

ParseDay(text) == [year |-> text[1][3], month |-> text[1][1], day |-> text[1][2]]

\* day() ==, month() ==, year() == of two parsed dates
SameDay(a, b) == a.day = b.day /\ a.month = b.month /\ a.year = b.year

\* "%d/%m/%Y %I:%M %p": the full timestamp of a cell
CanParseDateTime(text) ==
    /\ Len(text) >= 3
    /\ CanParseDay(text)
    /\ Len(text[2]) >= 2
    /\ text[2][1] \in 1..12
    /\ text[2][2] \in 0..59
    /\ text[3] \in {"AM", "PM"}

ParseDateTime(text) ==
    [year |-> text[1][3], month |-> text[1][1], day |-> text[1][2],
     hour |-> (text[2][1] % 12) + (IF text[3] = "PM" THEN 12 ELSE 0),
     minute |-> text[2][2]]

\* NaiveDateTime::cmp as a number
DateTimeKey(dt) ==
    ((((dt.year * 12 + dt.month) * 31 + dt.day) * 24 + dt.hour) * 60) + dt.minute

(***************************************************************************)
(* Row mapping of one roster sheet                                         *)
(***************************************************************************)
TitleRows   == 10    \* file_rows.iter().skip(10)
SummaryRows == 3     \* current_row == total_rows - 3
NeededCells == 7     \* the highest cell read is row[6]

\* Cells of a row: [0] shift_group, [1] teacher_name, [4] start_date,
\* [5] end_date, [6] shift (TLA+ sequences count from 1).
SheetRow(g, t, sd, ed, s) == << g, t, "", "", sd, ed, s >>
TitleRow   == SheetRow("", "", Blank, Blank, "")
SummaryRow == SheetRow("", "", Blank, Blank, "")

EmptyTemps ==
    [shift_group |-> "", shift |-> "", teacher_name |-> "",
     start_date |-> Blank, end_date |-> Blank]

\* An update that forgets the last seen value on a blank cell
CarryStr_NoCarry(temp, cell) == IF cell # "" THEN cell ELSE ""

\* if cell.len() > 0 { temp = cell }
CarryStr(temp, cell)  == IF cell # "" THEN cell ELSE temp
CarryDate(temp, cell) == IF Len(cell) > 0 THEN cell ELSE temp

\* lines 273-301: the five carry-forward updates of one row
CarryForward(t, row) ==
    [shift_group  |-> CarryStr(t.shift_group, row[1]),
     shift        |-> CarryStr(t.shift, row[7]),
     teacher_name |-> CarryStr(t.teacher_name, row[2]),
     start_date   |-> CarryDate(t.start_date, row[5]),
     end_date     |-> CarryDate(t.end_date, row[6])]

\* lines 347-352: start day is the process day, or end day is
AdmitRow(dialogue_row, pd) ==
    \/ SameDay(ParseDay(dialogue_row.start_date), ParseProcessDate(pd))
    \/ SameDay(ParseDay(dialogue_row.end_date), ParseProcessDate(pd))

StartMapping(t) ==
    [current_row |-> 0, temps |-> t, rows |-> << >>, src |-> << >>,
     panicked |-> FALSE]

\* The loop "for (_, row) in file_rows" of lines 264-356. wrap tells whether
\* the build wraps the usize subtraction total_rows - 3 (release) or panics on
\* overflow (debug).
RECURSIVE MapLoop(_, _, _, _)
MapLoop(file_rows, pd, st, wrap) ==
    LET total_rows == Len(file_rows)
        n          == st.current_row + 1
    IN  IF st.panicked \/ st.current_row >= total_rows THEN st
        ELSE IF total_rows < SummaryRows /\ ~wrap
             THEN [st EXCEPT !.current_row = n, !.panicked = TRUE]
        ELSE IF total_rows >= SummaryRows /\ n = total_rows - SummaryRows
             THEN [st EXCEPT !.current_row = n]
        ELSE LET row == file_rows[n] IN
             IF Len(row) < NeededCells
             THEN [st EXCEPT !.current_row = n, !.panicked = TRUE]
             ELSE LET t == CarryForward(st.temps, row) IN
                  IF ~CanParseDay(t.start_date) \/ ~CanParseDay(t.end_date)
                  THEN [st EXCEPT !.current_row = n, !.temps = t,
                                  !.panicked = TRUE]
                  ELSE MapLoop(file_rows, pd,
                         [st EXCEPT !.current_row = n, !.temps = t,
                            !.rows = IF AdmitRow(t, pd)
                                     THEN Append(@, t) ELSE @,
                            !.src  = IF AdmitRow(t, pd)
                                     THEN Append(@, TitleRows + n) ELSE @],
                         wrap)

\* lines 258-259: rows().enumerate().skip(10)
SkipTitle(rows) ==
    IF Len(rows) <= TitleRows THEN << >> ELSE SubSeq(rows, TitleRows + 1, Len(rows))

MapSheet(rows, pd, t, wrap) == MapLoop(SkipTitle(rows), pd, StartMapping(t), wrap)

(***************************************************************************)
(* Specification SpecMap: one sheet is drawn, then mapped                  *)
(***************************************************************************)
GroupCells   == Groups \cup {""}
ShiftCells   == Shifts \cup {""}
TeacherCells == {"", "Alice"}
\* start and end cell of a row: both blank (merged cells), or both filled
DateCells    == { <<Blank, Blank>>, <<Mar1Start, Mar1End>>, <<Jan3Start, Jan3End>> }

DataRows ==
    { SheetRow(g, t, d[1], d[2], s) :
        g \in GroupCells, t \in TeacherCells, d \in DateCells, s \in ShiftCells }

\* All sequences over S of length 0..n
RECURSIVE SeqsUpTo(_, _)
SeqsUpTo(S, n) ==
    IF n = 0 THEN { << >> }
    ELSE LET shorter == SeqsUpTo(S, n - 1)
         IN  shorter \cup { Append(q, x) : q \in { r \in shorter : Len(r) = n - 1 }, x \in S }

Repeat(x, n) == [i \in 1..n |-> x]

\* Trailing rows of the export after the data rows
TrailingCounts == {3, 4}

IdleRec ==
    /\ first_dialogue_rows = << >>
    /\ second_dialogue_rows = << >>
    /\ rec_pc = "idle"
    /\ consolidated_rows = << >>

IdleDb ==
    /\ teachers = << >>
    /\ schedules = << >>
    /\ tasks = << >>
    /\ spawned = 0

IdleSheet2 ==
    /\ second_sheet = << >>
    /\ second_src = << >>

IdleInv ==
    /\ invoicing_sheet = << >>
    /\ invoices = << >>
    /\ inv_runs = << >>

IdleReport ==
    /\ overflow_checks = FALSE
    /\ efficiency = [pc |-> "idle"]
    /\ consolidated = [pc |-> "idle"]

IdleStage ==
    /\ files = << >>
    /\ requests = << >>
    /\ readers = << >>

IdleMap ==
    /\ sheet = << >>
    /\ map_pc = "idle"
    /\ current_row = 0
    /\ temps = EmptyTemps
    /\ mapped_src = << >>

InitMap ==
    /\ \E data \in SeqsUpTo(DataRows, MaxData), k \in TrailingCounts :
          sheet = Repeat(TitleRow, TitleRows) \o data \o Repeat(SummaryRow, k)
    /\ process_date = <<2024, 3, 1>>
    /\ map_pc = "mapping"
    /\ current_row = 0
    /\ temps = EmptyTemps          \* lines 249-253
    /\ mapped_src = << >>
    /\ IdleRec
    /\ IdleDb
    /\ IdleSheet2 /\ IdleInv /\ IdleStage /\ IdleReport

\* lines 247-356: the first dialogue file is mapped
MapFirstSheet ==
    /\ map_pc = "mapping"
    /\ \E wrap \in (IF Len(SkipTitle(sheet)) < SummaryRows THEN BOOLEAN ELSE {TRUE}) :
         LET st == MapSheet(sheet, process_date, temps, wrap) IN
         /\ map_pc' = IF st.panicked THEN "panicked" ELSE "mapped"
         /\ current_row' = st.current_row
         /\ temps' = st.temps
         /\ mapped_src' = st.src
         /\ first_dialogue_rows' = st.rows
    /\ UNCHANGED << sheet, process_date, second_dialogue_rows, rec_vars, db_vars,
                    more_vars >>

NextMap == MapFirstSheet

SpecMap == InitMap /\ [][NextMap]_vars

(***************************************************************************)
(* Specification SpecSheets: the two roster sheets of a request are drawn, *)
(* the first is mapped, then the second                                    *)
(***************************************************************************)
\* Rows of a block of merged cells: a full row, a row with every cell blank,
\* a row that opens another group and shift, a row of another teacher and day
BlockRows ==
    { SheetRow("A", "Alice", Mar1Start, Mar1End, "S1"),
      SheetRow("", "", Blank, Blank, ""),
      SheetRow("B", "", Blank, Blank, "S2"),
      SheetRow("", "Bob", Jan3Start, Jan3End, "") }

BlockLen == MaxData + 1

\* a sheet whose data rows are all reached by the loop
BlockSheet(data) ==
    Repeat(TitleRow, TitleRows) \o data \o Repeat(SummaryRow, SummaryRows + 1)

InitSheets ==
    /\ \E data \in SeqsUpTo(BlockRows, BlockLen) : sheet = BlockSheet(data)
    /\ \E data \in SeqsUpTo(BlockRows, BlockLen) : second_sheet = BlockSheet(data)
    /\ process_date = <<2024, 3, 1>>
    /\ map_pc = "mapping"
    /\ current_row = 0
    /\ temps = EmptyTemps          \* lines 249-253
    /\ mapped_src = << >>
    /\ second_src = << >>
    /\ IdleRec
    /\ IdleDb
    /\ IdleInv /\ IdleStage /\ IdleReport

\* lines 358-460: the second dialogue file is mapped. current_row is declared
\* anew (line 368); the five *_temp variables are those of lines 249-253.
MapSecondSheet ==
    /\ map_pc = "mapped"
    /\ second_sheet # << >>
    /\ \E wrap \in (IF Len(SkipTitle(second_sheet)) < SummaryRows
                    THEN BOOLEAN ELSE {TRUE}) :
         LET st == MapSheet(second_sheet, process_date, temps, wrap) IN
         /\ map_pc' = IF st.panicked THEN "panicked" ELSE "mapped_both"
         /\ current_row' = st.current_row
         /\ temps' = st.temps
         /\ second_src' = st.src
         /\ second_dialogue_rows' = st.rows
    /\ UNCHANGED << sheet, mapped_src, second_sheet, process_date,
                    first_dialogue_rows, rec_vars, db_vars, inv_vars, stage_vars,
                    report_vars >>

NextSheets == MapFirstSheet \/ MapSecondSheet

SpecSheets == InitSheets /\ [][NextSheets]_vars

(***************************************************************************)
(* Reconciliation of the two snapshots                                     *)
(***************************************************************************)
ShiftsOf(rows) == { rows[i].shift : i \in 1..Len(rows) }
GroupsOf(rows) == { rows[i].shift_group : i \in 1..Len(rows) }

\* lines 707-742: the Vec kept under one key of the HashMap
RowsOfGroup(rows, g) == SelectSeq(rows, LAMBDA r : r.shift_group = g)

\* lines 761-768
LostShifts(first, second) == ShiftsOf(first) \ ShiftsOf(second)
NewShifts(first, second)  == ShiftsOf(second) \ ShiftsOf(first)

\* lines 770-773: collect::<HashMap<_, _>>() keeps the last pair of a key
PreviousShiftTeacher(first, shift) ==
    LET last == CHOOSE i \in 1..Len(first) :
                   /\ first[i].shift = shift
                   /\ \A j \in (i + 1)..Len(first) : first[j].shift # shift
    IN  first[last].teacher_name

\* A comparison that keeps the shifts whose teacher did not change
PickedUpShifts_SameTeacher(first, second) ==
    { second[i].shift : i \in
        { k \in 1..Len(second) :
            /\ second[k].shift \in ShiftsOf(first)
            /\ PreviousShiftTeacher(first, second[k].shift) = second[k].teacher_name } }

\* lines 775-792
PickedUpShifts(first, second) ==
    { second[i].shift : i \in
        { k \in 1..Len(second) :
            /\ second[k].shift \in ShiftsOf(first)
            /\ PreviousShiftTeacher(first, second[k].shift) # second[k].teacher_name } }

\* lines 800-802: iter().find() returns the first match
FindSecond(second, shift) ==
    second[CHOOSE i \in 1..Len(second) :
              /\ second[i].shift = shift
              /\ \A j \in 1..(i - 1) : second[j].shift # shift]

\* A filter that compares the row's teacher with itself
LostButPickedUpShifts_SelfCompare(first, second) ==
    { first[i].shift : i \in
        { k \in 1..Len(first) :
            /\ first[k].shift \in ShiftsOf(second)
            /\ first[k].teacher_name # first[k].teacher_name } }

\* lines 794-819
LostButPickedUpShifts(first, second) ==
    { first[i].shift : i \in
        { k \in 1..Len(first) :
            /\ first[k].shift \in ShiftsOf(second)
            /\ FindSecond(second, first[k].shift).teacher_name # first[k].teacher_name } }

Consolidated(row, g, shift_type) ==
    [shift_group |-> g, shift |-> row.shift, shift_type |-> shift_type,
     teacher_name |-> row.teacher_name, start_date |-> row.start_date,
     end_date |-> row.end_date]

Tagged(rows, g, shift_type) == [i \in 1..Len(rows) |-> Consolidated(rows[i], g, shift_type)]

\* lines 821-836
PickupRows(g, first, second) ==
    Tagged(SelectSeq(second, LAMBDA r : r.shift \in NewShifts(first, second)),
           g, "Pickup")

\* lines 838-853
InternalPickupRows(g, first, second) ==
    Tagged(SelectSeq(second, LAMBDA r : r.shift \in PickedUpShifts(first, second)),
           g, "Internal Pickup")

\* lines 855-870
DroppedRows(g, first, second) ==
    Tagged(SelectSeq(first, LAMBDA r : r.shift \in LostShifts(first, second)),
           g, "Dropped")

\* lines 872-887
DroppedAndPickedUpRows(g, first, second) ==
    Tagged(SelectSeq(first, LAMBDA r : r.shift \in LostButPickedUpShifts(first, second)),
           g, "Dropped & Picked Up")

\* A last loop that leaves out the new shifts only
UnchangedRows_OnlyNewExcluded(g, first, second) ==
    Tagged(SelectSeq(second, LAMBDA r : r.shift \notin NewShifts(first, second)),
           g, "-")

\* lines 889-909
UnchangedRows(g, first, second) ==
    Tagged(SelectSeq(second, LAMBDA r :
              /\ r.shift \notin PickedUpShifts(first, second)
              /\ r.shift \notin NewShifts(first, second)
              /\ r.shift \notin LostShifts(first, second)
              /\ r.shift \notin LostButPickedUpShifts(first, second)),
           g, "-")

\* A loop body that reports a group missing from the second snapshot as dropped
ConsolidateGroup_AbsentIsDropped(g, first_rows, second_rows) ==
    LET first  == RowsOfGroup(first_rows, g)
        second == RowsOfGroup(second_rows, g)
    IN  PickupRows(g, first, second)
        \o InternalPickupRows(g, first, second)
        \o DroppedRows(g, first, second)
        \o DroppedAndPickedUpRows(g, first, second)
        \o UnchangedRows(g, first, second)

\* lines 750-912: one iteration of the loop over first_dialogue_rows_split
ConsolidateGroup(g, first_rows, second_rows) ==
    LET first  == RowsOfGroup(first_rows, g)
        second == RowsOfGroup(second_rows, g)
    IN  IF Len(second) = 0 THEN << >>       \* None => {}
        ELSE PickupRows(g, first, second)
             \o InternalPickupRows(g, first, second)
             \o DroppedRows(g, first, second)
             \o DroppedAndPickedUpRows(g, first, second)
             \o UnchangedRows(g, first, second)

\* lines 747-913: the groups of the first snapshot, in the order the HashMap
\* yields them
RECURSIVE ConsolidateGroups(_, _, _)
ConsolidateGroups(order, first_rows, second_rows) ==
    IF Len(order) = 0 THEN << >>
    ELSE ConsolidateGroup(Head(order), first_rows, second_rows)
         \o ConsolidateGroups(Tail(order), first_rows, second_rows)

\* The orders in which a HashMap may yield the keys S
Orders(S) ==
    { o \in [1..Cardinality(S) -> S] : \A x \in S : \E i \in DOMAIN o : o[i] = x }

(***************************************************************************)
(* The three sorts and the start-date filter                               *)
(***************************************************************************)
StartKey(row)   == DateTimeKey(ParseDateTime(row.start_date))
TeacherKey(row) == StrRank(row.teacher_name)
GroupKey(row)   == StrRank(row.shift_group)

\* The comparator of each of the three sort_by calls, as a key
SortKey(by, row) ==
    IF by = "start_date" THEN StartKey(row)
    ELSE IF by = "teacher_name" THEN TeacherKey(row)
    ELSE GroupKey(row)

\* slice::sort_by is stable: insertion after the last element not greater
RECURSIVE InsertSorted(_, _, _)
InsertSorted(sorted, x, by) ==
    IF Len(sorted) = 0 THEN << x >>
    ELSE IF SortKey(by, sorted[Len(sorted)]) <= SortKey(by, x) THEN Append(sorted, x)
    ELSE Append(InsertSorted(SubSeq(sorted, 1, Len(sorted) - 1), x, by),
                sorted[Len(sorted)])

RECURSIVE StableSort(_, _)
StableSort(rows, by) ==
    IF Len(rows) = 0 THEN << >>
    ELSE InsertSorted(StableSort(SubSeq(rows, 1, Len(rows) - 1), by),
                      rows[Len(rows)], by)

\* lines 919-956. The comparator of the first sort unwraps the parse of both
\* start dates; it runs only when there are two rows to compare.
SortPanics(rows) ==
    Len(rows) >= 2 /\ \E i \in 1..Len(rows) : ~CanParseDateTime(rows[i].start_date)

\* The sorts by start date and teacher only
SortRows_NoGroupSort(rows) ==
    StableSort(StableSort(rows, "start_date"), "teacher_name")

\* The three sorts in the opposite order
SortRows_GroupSortFirst(rows) ==
    StableSort(StableSort(StableSort(rows, "shift_group"), "teacher_name"),
               "start_date")

SortRows(rows) ==
    StableSort(StableSort(StableSort(rows, "start_date"), "teacher_name"),
               "shift_group")

\* A second filter that repeats the first one (start or end on the date)
StartsOnProcessDate_StartOrEnd(row, pd) == AdmitRow(row, pd)

\* lines 959-980
StartsOnProcessDate(row, pd) ==
    SameDay(ParseDay(row.start_date), ParseProcessDate(pd))

FilterRows(rows, pd) == SelectSeq(rows, LAMBDA r : StartsOnProcessDate(r, pd))

(***************************************************************************)
(* Specification SpecReconcile: two filtered snapshots are drawn, then     *)
(* consolidated, sorted and filtered                                       *)
(***************************************************************************)
\* The time slot of a shift label: S1 is a day shift on 1 March, S2 a night
\* shift that starts on 29 February and ends on 1 March.
SlotStart(shift) == IF shift = "S1" THEN Mar1Start ELSE Feb29Late
SlotEnd(shift)   == IF shift = "S1" THEN Mar1End ELSE Mar1Early

DialogueRowOf(g, s, t) ==
    [shift_group |-> g, shift |-> s, teacher_name |-> t,
     start_date |-> SlotStart(s), end_date |-> SlotEnd(s)]

\* Group A has both shifts, group B the day shift only.
SnapRows ==
    { DialogueRowOf(g, s, t) : g \in Groups, s \in Shifts, t \in Teachers }
      \ { DialogueRowOf("B", "S2", t) : t \in Teachers }

InitReconcile ==
    /\ process_date = <<2024, 3, 1>>
    /\ first_dialogue_rows \in
         SeqsUpTo({ r \in SnapRows : AdmitRow(r, process_date) }, MaxSnap)
    /\ second_dialogue_rows \in
         SeqsUpTo({ r \in SnapRows : AdmitRow(r, process_date) }, MaxSnap)
    /\ rec_pc = "split"
    /\ consolidated_rows = << >>
    /\ IdleMap
    /\ IdleDb
    /\ IdleSheet2 /\ IdleInv /\ IdleStage /\ IdleReport

\* lines 707-913
ConsolidateDialogues ==
    /\ rec_pc = "split"
    /\ \E order \in Orders(GroupsOf(first_dialogue_rows)) :
          consolidated_rows' =
              ConsolidateGroups(order, first_dialogue_rows, second_dialogue_rows)
    /\ rec_pc' = "consolidated"
    /\ UNCHANGED << map_vars, process_date, first_dialogue_rows,
                    second_dialogue_rows, db_vars, more_vars >>

\* lines 919-956
SortConsolidated ==
    /\ rec_pc = "consolidated"
    /\ IF SortPanics(consolidated_rows)
       THEN rec_pc' = "panicked" /\ UNCHANGED consolidated_rows
       ELSE rec_pc' = "sorted" /\ consolidated_rows' = SortRows(consolidated_rows)
    /\ UNCHANGED << map_vars, process_date, first_dialogue_rows,
                    second_dialogue_rows, db_vars, more_vars >>

\* lines 959-980
FilterConsolidated ==
    /\ rec_pc = "sorted"
    /\ consolidated_rows' = FilterRows(consolidated_rows, process_date)
    /\ rec_pc' = "filtered"
    /\ UNCHANGED << map_vars, process_date, first_dialogue_rows,
                    second_dialogue_rows, db_vars, more_vars >>

NextReconcile == ConsolidateDialogues \/ SortConsolidated \/ FilterConsolidated

SpecReconcile == InitReconcile /\ [][NextReconcile]_vars

(***************************************************************************)
(* Persistence of teachers and schedules                                   *)
(***************************************************************************)
\* lines 707-980 as one function of the two snapshots: what the persistence
\* loop of a task iterates over
Pipeline(order, first_rows, second_rows, pd) ==
    FilterRows(SortRows(ConsolidateGroups(order, first_rows, second_rows)), pd)

\* A lookup that sees the first teacher row only
TeachersNamed_FirstRowOnly(tbl, name) ==
    { i \in 1..Len(tbl) : i = 1 /\ tbl[i].name = name }

\* SELECT * FROM teachers WHERE name = $1 (line 1044)
TeachersNamed(tbl, name) == { i \in 1..Len(tbl) : tbl[i].name = name }

\* INSERT INTO teachers (name) VALUES ($1) RETURNING id (lines 1060-1063)
NewTeacher(tbl, name) == [id |-> Len(tbl) + 1, name |-> name]

\* A key bound to the id after the one found
ScheduleKey_NextTeacher(teacher_id, row) ==
    [teacher_id  |-> teacher_id + 1,
     start_date  |-> ParseDateTime(row.start_date),
     end_date    |-> ParseDateTime(row.end_date),
     shift       |-> row.shift,
     shift_type  |-> row.shift_type,
     shift_group |-> row.shift_group]

\* the six columns bound at lines 1079-1085 and 1101-1107
ScheduleKey(teacher_id, row) ==
    [teacher_id  |-> teacher_id,
     start_date  |-> ParseDateTime(row.start_date),
     end_date    |-> ParseDateTime(row.end_date),
     shift       |-> row.shift,
     shift_type  |-> row.shift_type,
     shift_group |-> row.shift_group]

KeyOf(sched) ==
    [teacher_id  |-> sched.teacher_id,
     start_date  |-> sched.start_date,
     end_date    |-> sched.end_date,
     shift       |-> sched.shift,
     shift_type  |-> sched.shift_type,
     shift_group |-> sched.shift_group]

\* A lookup that binds the end date to the start_date column
ScheduleFound_WrongColumn(tbl, key) ==
    \E i \in 1..Len(tbl) :
        KeyOf(tbl[i]) = [key EXCEPT !.start_date = key.end_date]

\* SELECT * FROM schedules WHERE teacher_id = $1 AND start_date = $2 AND
\* end_date = $3 AND shift = $4 AND shift_type = $5 AND shift_group = $6
ScheduleFound(tbl, key) == \E i \in 1..Len(tbl) : KeyOf(tbl[i]) = key

\* INSERT INTO schedules (...) VALUES ($1, .., $6)
NewSchedule(tbl, key) ==
    [id |-> Len(tbl) + 1, teacher_id |-> key.teacher_id,
     start_date |-> key.start_date, end_date |-> key.end_date,
     shift |-> key.shift, shift_type |-> key.shift_type,
     shift_group |-> key.shift_group]

\* lines 986-989 and the loop variable of line 991
NewTask(pd, rows) ==
    [date |-> pd, rows |-> rows, i |-> 1,
     pc |-> IF Len(rows) = 0 THEN "done" ELSE "select_teacher",
     teacher_found |-> 0,
     new_teachers |-> 0, skipped_teachers |-> 0,
     new_shifts |-> 0, skipped_shifts |-> 0]

Running(t) == tasks[t].pc \notin {"done", "panicked", "failed"}

\* end of one iteration of the loop of line 991
\* A loop that ends one row early
NextRow_SkipsLastRow(task) ==
    IF task.i + 1 >= Len(task.rows)
    THEN [task EXCEPT !.pc = "done"]
    ELSE [task EXCEPT !.i = @ + 1, !.pc = "select_teacher"]

NextRow(task) ==
    IF task.i = Len(task.rows)
    THEN [task EXCEPT !.pc = "done"]
    ELSE [task EXCEPT !.i = @ + 1, !.pc = "select_teacher"]

\* The rows of the roster files a request may upload
UploadDates == { <<2024, 3, 1>> }
UploadRows  ==
    { DialogueRowOf("A", "S1", "Alice"), DialogueRowOf("A", "S1", "Bob"),
      DialogueRowOf("A", "S2", "Alice") }

StagedSnapshots(pd) == SeqsUpTo({ r \in UploadRows : AdmitRow(r, pd) }, MaxSnap)

\* What a task spawned for the staged files of a request iterates over
SpawnInputs ==
    UNION { UNION { { [date |-> pd, rows |-> Pipeline(order, first, second, pd)] :
                        order \in Orders(GroupsOf(first)) } :
                    first \in StagedSnapshots(pd), second \in StagedSnapshots(pd) } :
            pd \in UploadDates }

\* lines 60-76: the files are stored and consolidate_files is spawned; the
\* task maps and reconciles its files before its first query
\* The handle of a spawned task is dropped (line 76), so nothing keeps the
\* summary of a finished task. When requests do not overlap, the record of
\* the run before the new one is kept as history and older ones are dropped.
Spawn(overlap) ==
    /\ spawned < MaxRuns
    /\ overlap \/ \A t \in 1..Len(tasks) : ~Running(t)
    /\ \E in \in SpawnInputs :
          tasks' = Append(IF overlap \/ Len(tasks) = 0 THEN tasks
                          ELSE << tasks[Len(tasks)] >>,
                          NewTask(in.date, in.rows))
    /\ spawned' = spawned + 1
    /\ UNCHANGED << teachers, schedules >>

\* lines 999-1058: the dates of the row are parsed, then the teacher is
\* looked up by name
SelectTeacher(t) ==
    /\ tasks[t].pc = "select_teacher"
    /\ LET task == tasks[t]
           row  == task.rows[task.i]
       IN  IF ~CanParseDateTime(row.start_date) \/ ~CanParseDateTime(row.end_date)
           THEN tasks' = [tasks EXCEPT ![t].pc = "panicked"]
           ELSE IF TeachersNamed(teachers, row.teacher_name) = {}
           THEN tasks' = [tasks EXCEPT ![t].pc = "insert_teacher"]
           ELSE \E i \in TeachersNamed(teachers, row.teacher_name) :
                   tasks' = [tasks EXCEPT ![t].pc = "select_schedule",
                                          ![t].teacher_found = teachers[i].id,
                                          ![t].skipped_teachers = @ + 1]
    /\ UNCHANGED << teachers, schedules, spawned >>

\* lines 1059-1075
InsertTeacher(t) ==
    /\ tasks[t].pc = "insert_teacher"
    /\ LET task == tasks[t]
           row  == task.rows[task.i]
           new  == NewTeacher(teachers, row.teacher_name)
       IN  /\ teachers' = Append(teachers, new)
           /\ tasks' = [tasks EXCEPT ![t].pc = "select_schedule",
                                     ![t].teacher_found = new.id,
                                     ![t].new_teachers = @ + 1]
    /\ UNCHANGED << schedules, spawned >>

\* lines 1078-1098
SelectSchedule(t) ==
    /\ tasks[t].pc = "select_schedule"
    /\ LET task == tasks[t]
           key  == ScheduleKey(task.teacher_found, task.rows[task.i])
       IN  IF ScheduleFound(schedules, key)
           THEN tasks' = [tasks EXCEPT ![t] =
                            NextRow([task EXCEPT !.skipped_shifts = @ + 1])]
           ELSE tasks' = [tasks EXCEPT ![t].pc = "insert_schedule"]
    /\ UNCHANGED << teachers, schedules, spawned >>

\* lines 1099-1118
InsertSchedule(t) ==
    /\ tasks[t].pc = "insert_schedule"
    /\ LET task == tasks[t]
           key  == ScheduleKey(task.teacher_found, task.rows[task.i])
       IN  /\ schedules' = Append(schedules, NewSchedule(schedules, key))
           /\ tasks' = [tasks EXCEPT ![t] =
                          NextRow([task EXCEPT !.new_shifts = @ + 1])]
    /\ UNCHANGED << teachers, spawned >>

TaskStep(t) ==
    \/ SelectTeacher(t)
    \/ InsertTeacher(t)
    \/ SelectSchedule(t)
    \/ InsertSchedule(t)

InitDb ==
    /\ teachers = << >>
    /\ schedules = << >>
    /\ tasks = << >>
    /\ spawned = 0
    /\ process_date = <<2024, 3, 1>>
    /\ IdleMap
    /\ IdleRec
    /\ IdleSheet2 /\ IdleInv /\ IdleStage /\ IdleReport

DbFrame ==
    UNCHANGED << map_vars, process_date, first_dialogue_rows,
                 second_dialogue_rows, rec_vars, more_vars >>

\* Tasks of overlapping requests interleave at their queries
Next ==
    \/ /\ Spawn(TRUE)
       /\ UNCHANGED << map_vars, process_date, first_dialogue_rows,
                       second_dialogue_rows, rec_vars, more_vars >>
    \/ /\ \E t \in 1..Len(tasks) : TaskStep(t)
       /\ UNCHANGED << map_vars, process_date, first_dialogue_rows,
                       second_dialogue_rows, rec_vars, more_vars >>

Spec == InitDb /\ [][Next]_vars

\* A request is made only when the task of the request before it has ended
NextSeq ==
    \/ /\ Spawn(FALSE)
       /\ UNCHANGED << map_vars, process_date, first_dialogue_rows,
                       second_dialogue_rows, rec_vars, more_vars >>
    \/ /\ \E t \in 1..Len(tasks) : TaskStep(t)
       /\ UNCHANGED << map_vars, process_date, first_dialogue_rows,
                       second_dialogue_rows, rec_vars, more_vars >>

SpecSeq == InitDb /\ [][NextSeq]_vars

(***************************************************************************)
(* Specification SpecDates: two requests for different reporting dates,    *)
(* whose tasks interleave at their queries                                 *)
(***************************************************************************)
\* The reporting dates of the two requests: group A's day shift starts on
\* 1 March and its night shift on 29 February.
TwoDates == { <<2024, 3, 1>>, <<2024, 2, 29>> }

DateInputs ==
    UNION { UNION { { [date |-> pd, rows |-> Pipeline(order, first, second, pd)] :
                        order \in Orders(GroupsOf(first)) } :
                    first \in StagedSnapshots(pd), second \in StagedSnapshots(pd) } :
            pd \in TwoDates }

\* lines 60-76, for a date no earlier request was made for
SpawnDate ==
    /\ spawned < MaxRuns
    /\ \E in \in DateInputs :
          /\ \A t \in 1..Len(tasks) : tasks[t].date # in.date
          /\ tasks' = Append(tasks, NewTask(in.date, in.rows))
    /\ spawned' = spawned + 1
    /\ UNCHANGED << teachers, schedules >>

NextDates ==
    \/ SpawnDate /\ DbFrame
    \/ \E t \in 1..Len(tasks) : SelectTeacher(t) /\ DbFrame
    \/ \E t \in 1..Len(tasks) : InsertTeacher(t) /\ DbFrame
    \/ \E t \in 1..Len(tasks) : SelectSchedule(t) /\ DbFrame
    \/ \E t \in 1..Len(tasks) : InsertSchedule(t) /\ DbFrame

SpecDates == InitDb /\ [][NextDates]_vars


(***************************************************************************)
(* Billing rows: mapping (lines 469-568) and persistence (lines 577-700)   *)
(***************************************************************************)
MaxInv == 2      \* records of a billing export

\* A timestamp cell "M/D/YYYY H:MM" as its pieces: split(" ") gives two
\* tokens, the first split("/") gives three, the second split(":") gives two.
StampText(a, b, y, hh, mm) == << <<a, b, y>>, <<hh, mm>> >>

\* split(" ")[0] and [1], split("/")[0..2], split(":")[0..1] are indexed
\* (panic when missing), then "%d/%m/%Y %H:%M" is parsed and unwrapped
CanParseStamp(text) ==
    /\ Len(text) >= 2
    /\ Len(text[1]) >= 3
    /\ Len(text[2]) >= 2
    /\ ValidDate(text[1][3], text[1][1], text[1][2])
    /\ text[2][1] \in 0..23
    /\ text[2][2] \in 0..59

ParseStamp(text) ==
    [year |-> text[1][3], month |-> text[1][1], day |-> text[1][2],
     hour |-> text[2][1], minute |-> text[2][2]]

\* row.get(k): the cell, or String::new() when the record is shorter
GetStr(record, k)   == IF k + 1 <= Len(record) THEN record[k + 1] ELSE ""
GetStamp(record, k) == IF k + 1 <= Len(record) THEN record[k + 1] ELSE Blank

\* Cells of a billing record: [4] teacher_name, [5] eligible,
\* [7] activity_start, [8] activity_end, [9] shift
BillingRecord(t, e, st, en, s) == << "", "", "", "", t, e, "", st, en, s >>

RecordPanics(record) ==
    \/ ~CanParseStamp(GetStamp(record, 7))
    \/ ~CanParseStamp(GetStamp(record, 8))

\* lines 471-553: the InvoicingRow of a record
InvoicingRowOf(record) ==
    [teacher_name   |-> GetStr(record, 4),
     eligible       |-> (GetStr(record, 5) = "Eligible"),
     activity_start |-> ParseStamp(GetStamp(record, 7)),
     activity_end   |-> ParseStamp(GetStamp(record, 8)),
     shift          |-> GetStr(record, 9)]

\* lines 470-568: the loop over invoicing_sheet; a record that cannot be
\* parsed panics, a record of another day is left out
RECURSIVE MapInvoices(_, _, _)
MapInvoices(records, pd, st) ==
    IF st.panicked \/ Len(records) = 0 THEN st
    ELSE IF RecordPanics(Head(records)) THEN [st EXCEPT !.panicked = TRUE]
    ELSE LET row == InvoicingRowOf(Head(records)) IN
         MapInvoices(Tail(records), pd,
            [st EXCEPT !.rows = IF SameDay(row.activity_start, ParseProcessDate(pd))
                                THEN Append(@, row) ELSE @])

\* the dedup key of the SELECT of lines 583-593
InvoiceKey(row) ==
    [teacher_name   |-> row.teacher_name, shift |-> row.shift,
     activity_start |-> row.activity_start, activity_end |-> row.activity_end]

\* A lookup that also compares the eligible column
InvoicesFound_EligibleToo(tbl, row) ==
    { i \in 1..Len(tbl) :
        InvoiceKey(tbl[i]) = InvoiceKey(row) /\ tbl[i].eligible = row.eligible }

\* SELECT id FROM invoices WHERE teacher_name = $1 AND shift = $2 AND
\* activity_start = $3 AND activity_end = $4
InvoicesFound(tbl, row) == { i \in 1..Len(tbl) : InvoiceKey(tbl[i]) = InvoiceKey(row) }

\* INSERT INTO invoices (teacher_name, eligible, activity_start, activity_end,
\* shift) VALUES ($1, .., $5)
NewInvoice(tbl, row) ==
    [id |-> Len(tbl) + 1, teacher_name |-> row.teacher_name,
     eligible |-> row.eligible, activity_start |-> row.activity_start,
     activity_end |-> row.activity_end, shift |-> row.shift]

\* An update that rewrites every row of the table
UpdateEligible_NoWhere(tbl, id, eligible) ==
    [i \in 1..Len(tbl) |-> [tbl[i] EXCEPT !.eligible = eligible]]

\* UPDATE invoices SET eligible = $1 WHERE id = $2
UpdateEligible(tbl, id, eligible) ==
    [i \in 1..Len(tbl) |->
        IF tbl[i].id = id THEN [tbl[i] EXCEPT !.eligible = eligible] ELSE tbl[i]]

\* lines 573-575 and the loop variable of line 577; before is the table as
\* the loop found it
NewInvRun(pd, st, tbl) ==
    [date |-> pd, rows |-> st.rows, i |-> 1,
     pc |-> IF st.panicked THEN "panicked"
            ELSE IF Len(st.rows) = 0 THEN "done" ELSE "select",
     found |-> 0,
     inserted_invoices |-> 0, skipped_invoices |-> 0, updated_invoices |-> 0,
     before |-> tbl]

InvRunning(r) == inv_runs[r].pc \notin {"done", "panicked"}

\* end of one iteration of the loop of line 577
NextInvoice(run) ==
    IF run.i = Len(run.rows)
    THEN [run EXCEPT !.pc = "done"]
    ELSE [run EXCEPT !.i = @ + 1, !.pc = "select"]

\* The records of the billing exports a request may upload: two records of
\* one key that differ in eligibility, a record of another teacher, a record
\* of another day, a record without timestamps
Mar1Nine  == StampText(3, 1, 2024, 9, 0)
Mar1Noon  == StampText(3, 1, 2024, 12, 30)
Jan3Nine  == StampText(1, 3, 2024, 9, 0)
Jan3Noon  == StampText(1, 3, 2024, 12, 30)

BillingRecords ==
    { BillingRecord("Alice", "Eligible", Mar1Nine, Mar1Noon, "S1"),
      BillingRecord("Alice", "Not Eligible", Mar1Nine, Mar1Noon, "S1"),
      BillingRecord("Bob", "Eligible", Mar1Nine, Mar1Noon, "S1"),
      BillingRecord("Bob", "Eligible", Jan3Nine, Jan3Noon, "S1"),
      BillingRecord("Bob", "Eligible", Blank, Blank, "S1") }

BillingSheets == SeqsUpTo(BillingRecords, MaxInv)

\* lines 60-76 and 469-575: a request stages its export, the spawned task
\* maps it and starts the loop over invoicing_rows. Requests do not overlap;
\* the record of the run before is kept as history.
StartInvoices ==
    /\ spawned < MaxRuns
    /\ \A r \in 1..Len(inv_runs) : ~InvRunning(r)
    /\ \E records \in BillingSheets :
          /\ invoicing_sheet' = records
          /\ inv_runs' =
               Append(IF Len(inv_runs) = 0 THEN inv_runs
                      ELSE << inv_runs[Len(inv_runs)] >>,
                      NewInvRun(process_date,
                                MapInvoices(records, process_date,
                                            [rows |-> << >>, panicked |-> FALSE]),
                                invoices))
    /\ spawned' = spawned + 1
    /\ UNCHANGED invoices

\* lines 579-605
SelectInvoice(r) ==
    /\ inv_runs[r].pc = "select"
    /\ LET run == inv_runs[r]
           row == run.rows[run.i]
       IN  IF InvoicesFound(invoices, row) = {}
           THEN inv_runs' = [inv_runs EXCEPT ![r].pc = "insert"]
           ELSE \E i \in InvoicesFound(invoices, row) :
                   inv_runs' = [inv_runs EXCEPT ![r].pc = "update",
                                                ![r].found = invoices[i].id]
    /\ UNCHANGED << invoicing_sheet, invoices, spawned >>

\* lines 607-640
UpdateInvoice(r) ==
    /\ inv_runs[r].pc = "update"
    /\ LET run == inv_runs[r]
           row == run.rows[run.i]
       IN  /\ invoices' = UpdateEligible(invoices, run.found, row.eligible)
           /\ inv_runs' = [inv_runs EXCEPT ![r] =
                             NextInvoice([run EXCEPT !.updated_invoices = @ + 1])]
    /\ UNCHANGED << invoicing_sheet, spawned >>

\* lines 641-691
InsertInvoice(r) ==
    /\ inv_runs[r].pc = "insert"
    /\ LET run == inv_runs[r]
           row == run.rows[run.i]
       IN  /\ invoices' = Append(invoices, NewInvoice(invoices, row))
           /\ inv_runs' = [inv_runs EXCEPT ![r] =
                             NextInvoice([run EXCEPT !.inserted_invoices = @ + 1])]
    /\ UNCHANGED << invoicing_sheet, spawned >>

InvoiceStep(r) == SelectInvoice(r) \/ UpdateInvoice(r) \/ InsertInvoice(r)

InitInv ==
    /\ process_date = <<2024, 3, 1>>
    /\ IdleMap
    /\ IdleRec
    /\ IdleDb
    /\ IdleSheet2 /\ IdleInv /\ IdleStage /\ IdleReport

InvFrame ==
    UNCHANGED << map_vars, process_date, first_dialogue_rows,
                 second_dialogue_rows, rec_vars, teachers, schedules, tasks,
                 sheet2_vars, stage_vars,
                    report_vars >>

NextInv ==
    \/ StartInvoices /\ InvFrame
    \/ \E r \in 1..Len(inv_runs) : SelectInvoice(r) /\ InvFrame
    \/ \E r \in 1..Len(inv_runs) : UpdateInvoice(r) /\ InvFrame
    \/ \E r \in 1..Len(inv_runs) : InsertInvoice(r) /\ InvFrame

SpecInv == InitInv /\ [][NextInv]_vars

(***************************************************************************)
(* Specification SpecStage: upload requests for one date stage their       *)
(* files, the tasks they spawn read them                                   *)
(***************************************************************************)
\* The multipart fields of a request, in the order sent: dialogue-1.xlsx,
\* dialogue-2.xlsx, invoicing-report.csv
StagedFiles == 1..3
Workbooks   == {1, 2}

Absent == [upload |-> 0, complete |-> FALSE]

InitStage ==
    /\ files = [k \in StagedFiles |-> Absent]
    /\ requests = << >>
    /\ readers = << >>
    /\ process_date = <<2024, 3, 1>>
    /\ IdleMap
    /\ IdleRec
    /\ IdleDb
    /\ IdleSheet2 /\ IdleInv /\ IdleReport

\* lines 60, 81-129: a request arrives and store_files starts; nothing keeps
\* a second request for the date from starting meanwhile
ReceiveUpload ==
    /\ Len(requests) < MaxRuns
    /\ requests' = Append(requests, [field |-> 1, pc |-> "open", written |-> 0])
    /\ UNCHANGED << files, readers >>

\* lines 131-145: the file of the field is created, or opened with truncate
OpenField(q) ==
    /\ requests[q].pc = "open"
    /\ files' = [files EXCEPT ![requests[q].field] =
                    [upload |-> q, complete |-> FALSE]]
    /\ requests' = [requests EXCEPT ![q].pc = "write"]
    /\ UNCHANGED readers

\* line 131: the next field of the request, or the end of store_files
NextField(request) ==
    IF request.field = 3 THEN [request EXCEPT !.pc = "stored"]
    ELSE [request EXCEPT !.field = @ + 1, !.pc = "open"]

\* lines 147-158: write_all and flush through the handle of the request. When
\* another request has opened or written the file since, the bytes of the
\* two may mix.
WriteField(q) ==
    /\ requests[q].pc = "write"
    /\ LET k == requests[q].field IN
       /\ \E whole \in (IF files[k] = [upload |-> q, complete |-> FALSE]
                         THEN {TRUE} ELSE BOOLEAN) :
             files' = [files EXCEPT ![k] = [upload |-> q, complete |-> whole]]
       /\ requests' = [requests EXCEPT ![q] = NextField([@ EXCEPT !.written = @ + 1])]
    /\ UNCHANGED readers

\* line 76: store_files has returned, consolidate_files is spawned
SpawnReader(q) ==
    /\ requests[q].pc = "stored"
    /\ requests' = [requests EXCEPT ![q].pc = "spawned"]
    /\ readers' = Append(readers,
                         [request |-> q, next |-> 1, seen |-> << >>, pc |-> "reading"])
    /\ UNCHANGED files

\* lines 186-244: the task opens the two workbooks (expect: panic on a file
\* that is no workbook) and reads the billing export
ReadFile(r) ==
    /\ readers[r].pc = "reading"
    /\ LET k == readers[r].next IN
       readers' = [readers EXCEPT ![r] =
           IF k \in Workbooks /\ ~files[k].complete
           THEN [@ EXCEPT !.pc = "panicked"]
           ELSE [@ EXCEPT !.seen = Append(@, files[k]),
                          !.next = k + 1,
                          !.pc = IF k = 3 THEN "read" ELSE "reading"]]
    /\ UNCHANGED << files, requests >>

StageFrame ==
    UNCHANGED << map_vars, process_date, first_dialogue_rows,
                 second_dialogue_rows, rec_vars, db_vars, sheet2_vars, inv_vars,
                 report_vars >>

NextStage ==
    \/ ReceiveUpload /\ StageFrame
    \/ \E q \in 1..Len(requests) : OpenField(q) /\ StageFrame
    \/ \E q \in 1..Len(requests) : WriteField(q) /\ StageFrame
    \/ \E q \in 1..Len(requests) : SpawnReader(q) /\ StageFrame
    \/ \E r \in 1..Len(readers) : ReadFile(r) /\ StageFrame

SpecStage == InitStage /\ [][NextStage]_vars

(***************************************************************************)
(* Specification SpecStore: SpecStage with file operations that fail       *)
(***************************************************************************)
\* lines 136-145: try_exists, open or create return an error, which the ?
\* hands to upload_and_process; the request is answered with the
\* upload-failed error (lines 62-72) and nothing is spawned
OpenFails(q) ==
    /\ requests[q].pc = "open"
    /\ requests' = [requests EXCEPT ![q].pc = "failed"]
    /\ UNCHANGED << files, readers >>

\* lines 147-158: write_all returns an error (the disk is full, say) after
\* part of the bytes; flush of a std::fs::File does nothing and returns Ok;
\* the error is logged (lines 155-157) and the loop goes on
WriteFails(q) ==
    /\ requests[q].pc = "write"
    /\ files' = [files EXCEPT ![requests[q].field] =
                    [upload |-> q, complete |-> FALSE]]
    /\ requests' = [requests EXCEPT ![q] = NextField(@)]
    /\ UNCHANGED readers

NextStore ==
    \/ ReceiveUpload /\ StageFrame
    \/ \E q \in 1..Len(requests) : OpenField(q) /\ StageFrame
    \/ \E q \in 1..Len(requests) : OpenFails(q) /\ StageFrame
    \/ \E q \in 1..Len(requests) : WriteField(q) /\ StageFrame
    \/ \E q \in 1..Len(requests) : WriteFails(q) /\ StageFrame
    \/ \E q \in 1..Len(requests) : SpawnReader(q) /\ StageFrame
    \/ \E r \in 1..Len(readers) : ReadFile(r) /\ StageFrame

SpecStore == InitStage /\ [][NextStore]_vars

(***************************************************************************)
(* Reports: dates, the range query, unsigned arithmetic                    *)
(* Sources: src/src/routes/efficiency/generate_efficiency_report.rs,       *)
(*   src/src/routes/efficiency/generate_consolidated_report.rs             *)
(***************************************************************************)
MaxSched   == 2     \* rows of the schedules table a report is run on
MaxRecords == 7     \* EfficiencyDay records pushed before the model stops

\* NaiveDate::MAX (31 December 262142 in current chrono releases) and the
\* day before it
NaiveDateMax == << 262142, 12, 31 >>
NaiveDateMaxPred == << 262142, 12, 30 >>

\* NaiveDateTime::date, and a timestamp as the tuple its Ord compares
DateOf(dt)  == << dt.year, dt.month, dt.day >>
StampOf(dt) == << dt.year, dt.month, dt.day, dt.hour, dt.minute, 0 >>

\* NaiveDateTime::new(date, 00:00:00) and NaiveDateTime::new(date, 23:59:59)
StartOfDay(d) == d \o << 0, 0, 0 >>
EndOfDay(d)   == d \o << 23, 59, 59 >>

\* Ord of dates and timestamps: the first field that differs decides
RECURSIVE LexLess(_, _)
LexLess(a, b) ==
    IF a = << >> \/ b = << >> THEN FALSE
    ELSE a[1] < b[1] \/ (a[1] = b[1] /\ LexLess(Tail(a), Tail(b)))

LexLeq(a, b) == a = b \/ LexLess(a, b)

\* NaiveDate::succ_opt: the next calendar day, None after NaiveDate::MAX
None == << >>

SuccOpt(d) ==
    IF d = NaiveDateMax THEN None
    ELSE IF d[3] < DaysInMonth(d[1], d[2]) THEN << d[1], d[2], d[3] + 1 >>
    ELSE IF d[2] < 12 THEN << d[1], d[2] + 1, 1 >>
    ELSE << d[1] + 1, 1, 1 >>

\* A usize value: n when it has not wrapped, 2^64 - n when it has
Usize(n) == [wrapped |-> FALSE, n |-> n]

\* The value read as a two's-complement number, and back
Residue(x) == IF x.wrapped THEN 0 - x.n ELSE x.n
FromResidue(r) == IF r < 0 THEN [wrapped |-> TRUE, n |-> 0 - r] ELSE Usize(r)

\* a < b as unsigned numbers: a wrapped value is above every value that is not
UnsignedLess(a, b) ==
    IF a.wrapped = b.wrapped THEN Residue(a) < Residue(b) ELSE b.wrapped

\* a - b and a + b modulo 2^64, and whether the exact result leaves usize
WrappingSub(a, b) == FromResidue(Residue(a) - Residue(b))
WrappingAdd(a, b) == FromResidue(Residue(a) + Residue(b))
SubOverflows(a, b) == UnsignedLess(a, b)
AddOverflows(a, b) ==
    IF a.wrapped /\ b.wrapped THEN TRUE
    ELSE IF a.wrapped \/ b.wrapped THEN Residue(a) + Residue(b) >= 0
    ELSE FALSE

\* x as i32: the low 32 bits, read as a signed number
AsI32(x) == IF x.wrapped THEN 0 - x.n ELSE x.n

\* teachers.name of the LEFT JOIN: NULL when no teacher has the id
Null == "NULL"

TeacherNameOf(ttbl, id) ==
    IF \E i \in 1..Len(ttbl) : ttbl[i].id = id
    THEN ttbl[CHOOSE i \in 1..Len(ttbl) : ttbl[i].id = id].name
    ELSE Null

\* The row of the SELECT .. LEFT JOIN of both reports
JoinedRow(ttbl, sched) ==
    [id |-> sched.id, start_date |-> sched.start_date, end_date |-> sched.end_date,
     teacher_name |-> TeacherNameOf(ttbl, sched.teacher_id),
     shift_group |-> sched.shift_group, shift |-> sched.shift,
     shift_type |-> sched.shift_type]

\* WHERE start_date >= $1 AND end_date <= $2 AND shift_group = $3
InRange(sched, start, end, group) ==
    /\ LexLeq(StartOfDay(start), StampOf(sched.start_date))
    /\ LexLeq(StampOf(sched.end_date), EndOfDay(end))
    /\ sched.shift_group = group

RECURSIVE SchedulesForRange(_, _, _, _, _)
SchedulesForRange(stbl, ttbl, start, end, group) ==
    IF stbl = << >> THEN << >>
    ELSE (IF InRange(Head(stbl), start, end, group)
          THEN << JoinedRow(ttbl, Head(stbl)) >> ELSE << >>)
         \o SchedulesForRange(Tail(stbl), ttbl, start, end, group)

\* for schedule in ..: if !table_teachers.contains(..) { push }
RECURSIVE TableTeachers(_, _)
TableTeachers(rows, acc) ==
    IF rows = << >> THEN acc
    ELSE TableTeachers(Tail(rows),
                       IF \E i \in 1..Len(acc) : acc[i] = Head(rows).teacher_name
                       THEN acc ELSE Append(acc, Head(rows).teacher_name))

(***************************************************************************)
(* Specification SpecEfficiency: generate_efficiency_report on persisted   *)
(* tables                                                                  *)
(***************************************************************************)
\* filter of lines 134-136 and 143-145
SchedulesOfDay(rows, teacher, day) ==
    SelectSeq(rows, LAMBDA r : r.teacher_name = teacher /\ DateOf(r.start_date) = day)

\* A join that also compares the teacher of the invoice
InvoicesForSchedule_SameTeacher(itbl, schedule) ==
    SelectSeq(itbl, LAMBDA v : v.shift = schedule.shift
                               /\ v.teacher_name = schedule.teacher_name)

\* SELECT eligible FROM invoices WHERE invoices.shift = $1
InvoicesForSchedule(itbl, schedule) ==
    SelectSeq(itbl, LAMBDA v : v.shift = schedule.shift)

\* lines 143-175: taught (eligible = TRUE) or no_shows (eligible = FALSE)
\* over the schedule rows of the day
RECURSIVE CountInvoices(_, _, _)
CountInvoices(itbl, day_rows, eligible) ==
    IF day_rows = << >> THEN 0
    ELSE Len(SelectSeq(InvoicesForSchedule(itbl, Head(day_rows)),
                       LAMBDA v : v.eligible = eligible))
         + CountInvoices(itbl, Tail(day_rows), eligible)

\* lines 201-202 in f32: 0.0 / 0.0 is NaN, x / 0.0 is an infinity
PercentageVariance(total_taught, total_scheduled) ==
    IF total_scheduled.n = 0 /\ ~total_scheduled.wrapped
    THEN [kind |-> IF Residue(total_taught) = 0 THEN "NaN" ELSE "inf"]
    ELSE [kind |-> "finite",
          hundredths |-> (Residue(total_taught) - Residue(total_scheduled)) * 100,
          over |-> Residue(total_scheduled)]

\* Roster rows whose persisted schedule rows the reports are run on
Mar2Start == DateText(3, 2, 2024, 9, 0, "AM")
MaxStart  == DateText(12, 31, 262142, 9, 0, "AM")
MaxEnd    == DateText(12, 31, 262142, 12, 30, "PM")

ReportRow(t, s, sd, ed, ty) ==
    [shift_group |-> "A", shift |-> s, teacher_name |-> t,
     start_date |-> sd, end_date |-> ed, shift_type |-> ty]

ReportTeachers == << [id |-> 1, name |-> "Alice"], [id |-> 2, name |-> "Bob"] >>

\* a day shift, a night shift, a row whose end precedes its start, a shift on
\* the last day of the calendar, and the day shift under a second shift_type
ReportKeys ==
    { ScheduleKey(1, ReportRow("Alice", "S1", Mar1Start, Mar1End, "-")),
      ScheduleKey(2, ReportRow("Bob", "S2", Feb29Late, Mar1Early, "Pickup")),
      ScheduleKey(2, ReportRow("Bob", "S1", Mar2Start, Mar1End, "-")),
      ScheduleKey(1, ReportRow("Alice", "S1", MaxStart, MaxEnd, "-")),
      ScheduleKey(1, ReportRow("Alice", "S1", Mar1Start, Mar1End, "Dropped")) }

RECURSIVE InsertSchedules(_, _)
InsertSchedules(tbl, keys) ==
    IF keys = << >> THEN tbl
    ELSE InsertSchedules(Append(tbl, NewSchedule(tbl, Head(keys))), Tail(keys))

Distinct(seq) == \A i, j \in 1..Len(seq) : seq[i] = seq[j] => i = j

ReportSchedules ==
    { InsertSchedules(<< >>, keys) :
        keys \in { k \in SeqsUpTo(ReportKeys, MaxSched) : Distinct(k) } }

ReportInvoiceRows ==
    { [teacher_name |-> "Alice", eligible |-> TRUE, shift |-> "S1",
       activity_start |-> ParseStamp(Mar1Nine), activity_end |-> ParseStamp(Mar1Noon)],
      [teacher_name |-> "Bob", eligible |-> FALSE, shift |-> "S1",
       activity_start |-> ParseStamp(Jan3Nine), activity_end |-> ParseStamp(Jan3Noon)],
      [teacher_name |-> "Bob", eligible |-> TRUE, shift |-> "S2",
       activity_start |-> ParseStamp(Jan3Nine), activity_end |-> ParseStamp(Jan3Noon)] }

RECURSIVE InsertInvoices(_, _)
InsertInvoices(tbl, rows) ==
    IF rows = << >> THEN tbl
    ELSE InsertInvoices(Append(tbl, NewInvoice(tbl, Head(rows))), Tail(rows))

ReportInvoices ==
    { InsertInvoices(<< >>, rows) :
        rows \in { r \in SeqsUpTo(ReportInvoiceRows, MaxInv) : Distinct(r) } }

\* start_date and end_date of the query string
ReportDays == { <<2024, 2, 29>>, <<2024, 3, 1>>, <<2024, 3, 2>> }
LastDays   == { NaiveDateMaxPred, NaiveDateMax }
ReportWindows == (ReportDays \X ReportDays) \cup (LastDays \X LastDays)

InitReport ==
    /\ teachers = ReportTeachers
    /\ schedules \in ReportSchedules
    /\ invoices \in ReportInvoices
    /\ overflow_checks \in BOOLEAN
    /\ efficiency = [pc |-> "idle"]
    /\ consolidated = [pc |-> "idle"]
    /\ tasks = << >>
    /\ spawned = 0
    /\ invoicing_sheet = << >>
    /\ inv_runs = << >>
    /\ process_date = <<2024, 3, 1>>
    /\ IdleMap
    /\ IdleRec
    /\ IdleSheet2 /\ IdleStage

\* lines 65-120: the range query and the list of teachers; each teacher's
\* day loop starts at line 122
StartEfficiency ==
    /\ efficiency.pc = "idle"
    /\ \E w \in ReportWindows :
          LET rows == SchedulesForRange(schedules, teachers, w[1], w[2], "A")
              table_teachers == TableTeachers(rows, << >>)
          IN  efficiency' =
                [pc |-> IF \E i \in 1..Len(rows) : rows[i].teacher_name = Null
                        THEN "failed"
                        ELSE IF table_teachers = << >> THEN "csv" ELSE "days",
                 start_date |-> w[1], end_date |-> w[2],
                 schedules_for_range |-> rows,
                 table_teachers |-> table_teachers,
                 teacher |-> 1,
                 current_date |-> w[1],
                 total_scheduled |-> Usize(0), total_taught |-> Usize(0),
                 total_no_shows |-> Usize(0), total_variance |-> Usize(0),
                 table_days_efficiencies |-> << >>,
                 table_days |-> << >>,
                 table_summary |-> << >>]
    /\ UNCHANGED << overflow_checks, consolidated >>

\* lines 130-199: one pass of the while loop
DayStep ==
    /\ efficiency.pc = "days"
    /\ LexLeq(efficiency.current_date, efficiency.end_date)
    /\ Len(efficiency.table_days_efficiencies) < MaxRecords
    /\ LET e == efficiency
           teacher == e.table_teachers[e.teacher]
           day_rows == SchedulesOfDay(e.schedules_for_range, teacher, e.current_date)
           scheduled == Usize(Len(day_rows) * 2)
           taught == Usize(CountInvoices(invoices, day_rows, TRUE))
           no_shows == Usize(CountInvoices(invoices, day_rows, FALSE))
           initial_variance == WrappingSub(taught, scheduled)
           variance == WrappingSub(initial_variance, no_shows)
           overflows == \/ SubOverflows(taught, scheduled)
                        \/ SubOverflows(initial_variance, no_shows)
                        \/ AddOverflows(e.total_scheduled, scheduled)
                        \/ AddOverflows(e.total_taught, taught)
                        \/ AddOverflows(e.total_no_shows, no_shows)
                        \/ AddOverflows(e.total_variance, variance)
           succ == SuccOpt(e.current_date)
       IN  IF overflow_checks /\ overflows
           THEN efficiency' = [e EXCEPT !.pc = "panicked"]
           ELSE efficiency' =
                  [e EXCEPT
                     !.table_days_efficiencies =
                        Append(@, [date |-> e.current_date,
                                   scheduled |-> AsI32(scheduled),
                                   taught |-> AsI32(taught),
                                   no_shows |-> AsI32(no_shows),
                                   variance |-> AsI32(variance),
                                   teacher_name |-> teacher]),
                     !.total_scheduled = WrappingAdd(@, scheduled),
                     !.total_taught = WrappingAdd(@, taught),
                     !.total_no_shows = WrappingAdd(@, no_shows),
                     !.total_variance = WrappingAdd(@, variance),
                     !.table_days =
                        IF \E i \in 1..Len(@) : @[i] = e.current_date
                        THEN @ ELSE Append(@, e.current_date),
                     !.current_date = IF succ = None THEN e.current_date ELSE succ]
    /\ UNCHANGED << overflow_checks, consolidated >>

\* lines 146-166: the invoice query of a schedule row returns an error
EfficiencyQueryFails ==
    /\ efficiency.pc = "days"
    /\ LexLeq(efficiency.current_date, efficiency.end_date)
    /\ SchedulesOfDay(efficiency.schedules_for_range,
                      efficiency.table_teachers[efficiency.teacher],
                      efficiency.current_date) # << >>
    /\ efficiency' = [efficiency EXCEPT !.pc = "failed"]
    /\ UNCHANGED << overflow_checks, consolidated >>

\* lines 201-212: the summary of the teacher, then the next teacher
TeacherSummary ==
    /\ efficiency.pc = "days"
    /\ ~LexLeq(efficiency.current_date, efficiency.end_date)
    /\ LET e == efficiency IN
       efficiency' =
          [e EXCEPT
             !.table_summary =
                Append(@, [teacher_name |-> e.table_teachers[e.teacher],
                           scheduled |-> AsI32(e.total_scheduled),
                           taught |-> AsI32(e.total_taught),
                           no_shows |-> AsI32(e.total_no_shows),
                           variance |-> AsI32(e.total_variance),
                           percentage_variance |->
                              PercentageVariance(e.total_taught, e.total_scheduled)]),
             !.teacher = @ + 1,
             !.current_date = e.start_date,
             !.total_scheduled = Usize(0), !.total_taught = Usize(0),
             !.total_no_shows = Usize(0), !.total_variance = Usize(0),
             !.pc = IF e.teacher = Len(e.table_teachers) THEN "csv" ELSE "days"]
    /\ UNCHANGED << overflow_checks, consolidated >>

\* lines 214-320: the CSV text is built from the three tables (every teacher
\* of table_teachers has a summary, so the unwrap of line 258 holds) and is
\* the response
WriteEfficiencyCsv ==
    /\ efficiency.pc = "csv"
    /\ efficiency' = [efficiency EXCEPT !.pc = "done"]
    /\ UNCHANGED << overflow_checks, consolidated >>

ReportFrame ==
    UNCHANGED << map_vars, process_date, first_dialogue_rows,
                 second_dialogue_rows, rec_vars, db_vars, sheet2_vars, inv_vars,
                 stage_vars >>

NextEfficiency ==
    \/ StartEfficiency /\ ReportFrame
    \/ DayStep /\ ReportFrame
    \/ EfficiencyQueryFails /\ ReportFrame
    \/ TeacherSummary /\ ReportFrame
    \/ WriteEfficiencyCsv /\ ReportFrame

SpecEfficiency == InitReport /\ [][NextEfficiency]_vars

(***************************************************************************)
(* Specification SpecFail: runs that do not overlap, with queries that     *)
(* the storage layer may fail                                              *)
(***************************************************************************)
\* lines 1044-1116: each of the four queries ends in .map_err(..)?, so an
\* Err makes consolidate_files return it: the loop and the summary are left
QueryFails(t) ==
    /\ tasks[t].pc \in {"select_teacher", "insert_teacher",
                        "select_schedule", "insert_schedule"}
    /\ tasks' = [tasks EXCEPT ![t].pc = "failed"]
    /\ UNCHANGED << teachers, schedules, spawned >>

\* lines 630-637, 681-688, 693-697: the Err arm of each of the three invoice
\* queries counts the row as skipped and the loop goes on
InvoiceQueryFails(r) ==
    /\ inv_runs[r].pc \in {"select", "update", "insert"}
    /\ inv_runs' = [inv_runs EXCEPT ![r] =
                      NextInvoice([inv_runs[r] EXCEPT !.skipped_invoices = @ + 1])]
    /\ UNCHANGED << invoicing_sheet, invoices, spawned >>

NextFail ==
    \/ StartInvoices /\ InvFrame
    \/ \E r \in 1..Len(inv_runs) : SelectInvoice(r) /\ InvFrame
    \/ \E r \in 1..Len(inv_runs) : UpdateInvoice(r) /\ InvFrame
    \/ \E r \in 1..Len(inv_runs) : InsertInvoice(r) /\ InvFrame
    \/ \E r \in 1..Len(inv_runs) : InvoiceQueryFails(r) /\ InvFrame
    \/ Spawn(FALSE) /\ DbFrame
    \/ \E t \in 1..Len(tasks) : SelectTeacher(t) /\ DbFrame
    \/ \E t \in 1..Len(tasks) : InsertTeacher(t) /\ DbFrame
    \/ \E t \in 1..Len(tasks) : SelectSchedule(t) /\ DbFrame
    \/ \E t \in 1..Len(tasks) : InsertSchedule(t) /\ DbFrame
    \/ \E t \in 1..Len(tasks) : QueryFails(t) /\ DbFrame

SpecFail == InitInv /\ [][NextFail]_vars

(***************************************************************************)
(* Specification SpecConsolidated: generate_consolidated_report on         *)
(* persisted tables                                                        *)
(***************************************************************************)
\* lines 81-96: the rows are ordered by the lower-cased text
\* "<date>-<teacher>-<time>"; a year above 9999 is written with a leading
\* "+", which sorts before every digit
ReportSortKey(row) ==
    << IF row.start_date.year > 9999 THEN 0 ELSE 1,
       row.start_date.year, row.start_date.month, row.start_date.day,
       StrRank(row.teacher_name),
       row.start_date.hour, row.start_date.minute >>

\* slice::sort_by is stable
RECURSIVE InsertReportRow(_, _)
InsertReportRow(sorted, x) ==
    IF Len(sorted) = 0 THEN << x >>
    ELSE IF LexLeq(ReportSortKey(sorted[Len(sorted)]), ReportSortKey(x))
    THEN Append(sorted, x)
    ELSE Append(InsertReportRow(SubSeq(sorted, 1, Len(sorted) - 1), x),
                sorted[Len(sorted)])

RECURSIVE SortReportRows(_)
SortReportRows(rows) ==
    IF Len(rows) = 0 THEN << >>
    ELSE InsertReportRow(SortReportRows(SubSeq(rows, 1, Len(rows) - 1)),
                         rows[Len(rows)])

\* line 126: table_teachers.sort() of names that differ from one another
SortTeachers(names) ==
    CHOOSE sorted \in [1..Len(names) -> { names[i] : i \in 1..Len(names) }] :
        \A i, j \in 1..Len(names) : i < j => StrRank(sorted[i]) < StrRank(sorted[j])

\* A count of the rows of the teacher under one shift type only
TeacherTotals_OneTypePerShift(rows, teacher) ==
    LET mine == SelectSeq(rows, LAMBDA r : r.teacher_name = teacher)
        slots == { << mine[i].shift, mine[i].start_date >> : i \in 1..Len(mine) }
    IN  [teacher |-> teacher,
         scheduled |-> Cardinality(slots),
         picked_up |-> 0,
         dropped |-> 0]

\* lines 129-148: scheduled, picked_up and dropped of a teacher
TeacherTotals(rows, teacher) ==
    LET mine == SelectSeq(rows, LAMBDA r : r.teacher_name = teacher) IN
    [teacher |-> teacher,
     scheduled |-> Len(mine),
     picked_up |-> Len(SelectSeq(mine, LAMBDA r :
                        r.shift_type \in {"Pickup", "Internal Pickup",
                                          "Dropped & Picked Up"})),
     dropped |-> Len(SelectSeq(mine, LAMBDA r : r.shift_type = "Dropped"))]

\* lines 161-163 and 172-175: the sums over the teachers
RECURSIVE TotalSummary(_, _)
TotalSummary(rows, table_teachers) ==
    IF table_teachers = << >>
    THEN [teacher |-> "Total", scheduled |-> 0, picked_up |-> 0, dropped |-> 0]
    ELSE LET rest == TotalSummary(rows, Tail(table_teachers))
             one  == TeacherTotals(rows, Head(table_teachers))
         IN  [teacher |-> "Total",
              scheduled |-> rest.scheduled + one.scheduled,
              picked_up |-> rest.picked_up + one.picked_up,
              dropped |-> rest.dropped + one.dropped]

\* lines 102-183: one line per row; line k gets the summary of the k-th
\* teacher, the line after the last teacher's gets the totals. Indexing
\* csv_lines past its end panics.
ConsolidatedCsv(rows) ==
    LET table_teachers == SortTeachers(TableTeachers(rows, << >>))
        n == Len(table_teachers)
        summary(k) == IF k <= n THEN TeacherTotals(rows, table_teachers[k])
                      ELSE IF k = n + 1 THEN TotalSummary(rows, table_teachers)
                      ELSE None
    IN  [pc |-> IF n + 1 > Len(rows) THEN "panicked" ELSE "done",
         schedules_for_range |-> rows,
         table_teachers |-> table_teachers,
         csv_lines |-> [k \in 1..Len(rows) |->
                          [schedule |-> rows[k], summary |-> summary(k)]]]

\* lines 36-185: the whole handler; it awaits the range query only
GenerateConsolidatedReport ==
    /\ consolidated.pc = "idle"
    /\ \E w \in ReportWindows :
          LET rows == SchedulesForRange(schedules, teachers, w[1], w[2], "A") IN
          consolidated' =
             IF \E i \in 1..Len(rows) : rows[i].teacher_name = Null
             THEN [pc |-> "failed", start_date |-> w[1], end_date |-> w[2],
                   schedules_for_range |-> << >>,
                   table_teachers |-> << >>, csv_lines |-> << >>]
             ELSE ConsolidatedCsv(SortReportRows(rows))
                     @@ [start_date |-> w[1], end_date |-> w[2]]
    /\ UNCHANGED << overflow_checks, efficiency >>

NextConsolidated == GenerateConsolidatedReport /\ ReportFrame

SpecConsolidated == InitReport /\ [][NextConsolidated]_vars

(***************************************************************************)
(* Specification SpecRerun: non-overlapping runs for one date, then a      *)
(* consolidated report on what they persisted                              *)
(***************************************************************************)
\* The report is asked for once the last task has ended
ReportAfterRuns ==
    /\ spawned = MaxRuns
    /\ \A t \in 1..Len(tasks) : ~Running(t)
    /\ GenerateConsolidatedReport

\* lines 60-76: a request whose predecessor has finished; of the finished
\* task nothing remains but what it wrote to the tables
SpawnAgain ==
    /\ spawned < MaxRuns
    /\ \A t \in 1..Len(tasks) : ~Running(t)
    /\ \E in \in SpawnInputs : tasks' = << NewTask(in.date, in.rows) >>
    /\ spawned' = spawned + 1
    /\ UNCHANGED << teachers, schedules >>

NextRerun ==
    \/ SpawnAgain /\ DbFrame
    \/ \E t \in 1..Len(tasks) : SelectTeacher(t) /\ DbFrame
    \/ \E t \in 1..Len(tasks) : InsertTeacher(t) /\ DbFrame
    \/ \E t \in 1..Len(tasks) : SelectSchedule(t) /\ DbFrame
    \/ \E t \in 1..Len(tasks) : InsertSchedule(t) /\ DbFrame
    \/ ReportAfterRuns /\ ReportFrame

SpecRerun == InitDb /\ [][NextRerun]_vars

(***************************************************************************)
(* Specification SpecRun: one whole consolidation run, the invoice loop    *)
(* and then the teacher and schedule loop, with queries that fail, on      *)
(* tables that earlier runs have left                                      *)
(***************************************************************************)
\* What earlier runs have left: nothing, or both teachers with the day shift
\* of Alice, and no invoice or the eligible invoice of that shift
RunTables ==
    { [teachers |-> << >>, schedules |-> << >>],
      [teachers |-> ReportTeachers,
       schedules |-> InsertSchedules(<< >>,
          << ScheduleKey(1, ReportRow("Alice", "S1", Mar1Start, Mar1End, "-")) >>)] }

RunInvoices ==
    { << >>,
      InsertInvoices(<< >>,
          << InvoicingRowOf(BillingRecord("Alice", "Eligible", Mar1Nine, Mar1Noon, "S1")) >>) }

InitRun ==
    /\ \E tbl \in RunTables : teachers = tbl.teachers /\ schedules = tbl.schedules
    /\ invoices \in RunInvoices
    /\ tasks = << >>
    /\ spawned = 0
    /\ invoicing_sheet = << >>
    /\ inv_runs = << >>
    /\ process_date = <<2024, 3, 1>>
    /\ IdleMap
    /\ IdleRec
    /\ IdleSheet2 /\ IdleStage /\ IdleReport

\* lines 60-76 and 469-575: the task of a request maps the billing export
\* and starts the loop over invoicing_rows
StartRun ==
    /\ inv_runs = << >>
    /\ tasks = << >>
    /\ \E records \in BillingSheets :
          /\ invoicing_sheet' = records
          /\ inv_runs' =
               << NewInvRun(process_date,
                            MapInvoices(records, process_date,
                                        [rows |-> << >>, panicked |-> FALSE]),
                            invoices) >>
    /\ UNCHANGED << invoices, spawned, teachers, schedules, tasks >>

\* lines 700-991: the invoice loop is over; of it the three counters remain
\* (i - 1 is the number of rows it went through). The snapshots are
\* reconciled and the loop over consolidated_rows starts.
StartRows ==
    /\ Len(inv_runs) = 1
    /\ inv_runs[1].pc = "done"
    /\ tasks = << >>
    /\ \E in \in SpawnInputs : tasks' = << NewTask(in.date, in.rows) >>
    /\ inv_runs' = << [inv_runs[1] EXCEPT !.pc = "counted",
                                          !.i = Len(inv_runs[1].rows) + 1,
                                          !.rows = << >>,
                                          !.found = 0,
                                          !.before = << >>] >>
    /\ invoicing_sheet' = << >>
    /\ UNCHANGED << invoices, spawned, teachers, schedules >>

RunFrame ==
    UNCHANGED << map_vars, process_date, first_dialogue_rows,
                 second_dialogue_rows, rec_vars, sheet2_vars, stage_vars,
                 report_vars >>

NextRun ==
    \/ StartRun /\ RunFrame
    \/ \E r \in 1..Len(inv_runs) : SelectInvoice(r) /\ InvFrame
    \/ \E r \in 1..Len(inv_runs) : UpdateInvoice(r) /\ InvFrame
    \/ \E r \in 1..Len(inv_runs) : InsertInvoice(r) /\ InvFrame
    \/ \E r \in 1..Len(inv_runs) : InvoiceQueryFails(r) /\ InvFrame
    \/ StartRows /\ RunFrame
    \/ \E t \in 1..Len(tasks) : SelectTeacher(t) /\ DbFrame
    \/ \E t \in 1..Len(tasks) : InsertTeacher(t) /\ DbFrame
    \/ \E t \in 1..Len(tasks) : SelectSchedule(t) /\ DbFrame
    \/ \E t \in 1..Len(tasks) : InsertSchedule(t) /\ DbFrame
    \/ \E t \in 1..Len(tasks) : QueryFails(t) /\ DbFrame

SpecRun == InitRun /\ [][NextRun]_vars

(***************************************************************************)
(* Properties of persistence                                               *)
(***************************************************************************)
TeacherNames(tbl) == { tbl[i].name : i \in 1..Len(tbl) }
ScheduleKeys(tbl) == { KeyOf(tbl[i]) : i \in 1..Len(tbl) }

NoDuplicateTeachers ==
    \A i, j \in 1..Len(teachers) : teachers[i].name = teachers[j].name => i = j

NoDuplicateSchedules ==
    \A i, j \in 1..Len(schedules) : KeyOf(schedules[i]) = KeyOf(schedules[j]) => i = j

AllEnded == \A t \in 1..Len(tasks) : tasks[t].pc = "done"

SameInput(a, b) == tasks[a].date = tasks[b].date /\ tasks[a].rows = tasks[b].rows

\* C1 (as claimed): two consolidate_files tasks for the same reporting date
\* and the same files, interleaved in any way at their queries, leave no two
\* teacher rows with one name and no two schedule rows with one full key.
C1_ConcurrentSameDateSafe ==
    (Len(tasks) = 2 /\ SameInput(1, 2) /\ AllEnded)
        => (NoDuplicateTeachers /\ NoDuplicateSchedules)

\* C2: when the persistence loop runs a second time on the rows of the run
\* before it, the second run reports new_shifts = 0 and new_teachers = 0 and
\* skipped_shifts = number of rows, and no step of it changes the teachers or
\* the schedules table.
C2_SecondRunCounters ==
    (Len(tasks) = 2 /\ SameInput(1, 2) /\ tasks[2].pc = "done")
        => /\ tasks[2].new_shifts = 0
           /\ tasks[2].new_teachers = 0
           /\ tasks[2].skipped_shifts = Len(tasks[2].rows)

C2_SecondRunWritesNothing ==
    (Len(tasks) = 2 /\ SameInput(1, 2))
        => (teachers' = teachers /\ schedules' = schedules)

C2_PersistIdempotent ==
    [](C2_SecondRunCounters) /\ [][C2_SecondRunWritesNothing]_vars

\* C2 witness: a second run over the same two or more rows has ended, and
\* the first run had inserted schedule rows.
C2_Witness ==
    /\ Len(tasks) = 2 /\ SameInput(1, 2)
    /\ tasks[1].pc = "done" /\ tasks[2].pc = "done"
    /\ Len(tasks[2].rows) >= 2
    /\ tasks[1].new_shifts >= 2
    /\ tasks[2].skipped_shifts >= 2

\* The step of task t on the schedules table and its two shift counters
ScheduleStepOf(t) ==
    LET task == tasks[t]
        key  == ScheduleKey(task.teacher_found, task.rows[task.i])
    IN  IF task.pc = "select_schedule" /\ key \in ScheduleKeys(schedules)
        THEN /\ schedules' = schedules
             /\ tasks'[t].skipped_shifts = task.skipped_shifts + 1
             /\ tasks'[t].new_shifts = task.new_shifts
             /\ tasks'[t].pc # "insert_schedule"
        ELSE IF task.pc = "select_schedule"
        THEN /\ schedules' = schedules
             /\ tasks'[t].skipped_shifts = task.skipped_shifts
             /\ tasks'[t].new_shifts = task.new_shifts
             /\ tasks'[t].pc = "insert_schedule"
        ELSE IF task.pc = "insert_schedule"
        THEN /\ key \notin ScheduleKeys(schedules)
             /\ Len(schedules') = Len(schedules) + 1
             /\ SubSeq(schedules', 1, Len(schedules)) = schedules
             /\ KeyOf(schedules'[Len(schedules')]) = key
             /\ tasks'[t].new_shifts = task.new_shifts + 1
             /\ tasks'[t].skipped_shifts = task.skipped_shifts
        ELSE /\ schedules' = schedules
             /\ tasks'[t].skipped_shifts = task.skipped_shifts
             /\ tasks'[t].new_shifts = task.new_shifts

C3_ScheduleStep ==
    IF spawned' # spawned THEN schedules' = schedules
    ELSE \A t \in 1..Len(tasks) : tasks'[t] # tasks[t] => ScheduleStepOf(t)

\* C3: after any sequence of non-overlapping runs the schedules table holds
\* no two rows with the same full key; a row whose key exists causes no write
\* and adds one to skipped_shifts, any other row inserts exactly one schedule
\* row and adds one to new_shifts.
C3_ScheduleUpsert ==
    [](NoDuplicateSchedules) /\ [][C3_ScheduleStep]_vars

HasRepeatedRow(rows) == \E i, j \in 1..Len(rows) : i < j /\ rows[i] = rows[j]

\* C3 witness: a run whose input holds the same reconciled row twice has
\* ended, having inserted a row and skipped its repetition.
C3_Witness ==
    \E t \in 1..Len(tasks) :
        /\ tasks[t].pc = "done"
        /\ HasRepeatedRow(tasks[t].rows)
        /\ tasks[t].new_shifts >= 1
        /\ tasks[t].skipped_shifts >= 1
        /\ Len(schedules) >= 2

C4_TeacherStep ==
    /\ Len(teachers') >= Len(teachers)
    /\ \A i \in 1..Len(teachers) : teachers'[i] = teachers[i]
    /\ Len(teachers') > Len(teachers)
         => /\ Len(teachers') = Len(teachers) + 1
            /\ teachers'[Len(teachers')].name \notin TeacherNames(teachers)
            /\ teachers'[Len(teachers')].id
                 \notin { teachers[i].id : i \in 1..Len(teachers) }

\* C4: after any sequence of non-overlapping runs teacher names are unique; a
\* teacher row is inserted only for a name not yet in the table, and no step
\* changes or removes an existing teacher row.
C4_TeacherUpsert ==
    [](NoDuplicateTeachers) /\ [][C4_TeacherStep]_vars

\* C4 witness: a later run has found a teacher that an earlier run inserted,
\* and both teachers are in the table.
C4_Witness ==
    /\ Len(tasks) = 2
    /\ tasks[1].new_teachers >= 1
    /\ tasks[2].pc = "done"
    /\ tasks[2].skipped_teachers >= 1
    /\ tasks[2].new_teachers >= 1
    /\ Len(teachers) = 2

(***************************************************************************)
(* Properties of reconciliation                                            *)
(***************************************************************************)
Kinds == {"Pickup", "Internal Pickup", "Dropped", "Dropped & Picked Up", "-"}

Reconciled == rec_pc \in {"consolidated", "sorted"}

BothGroups == GroupsOf(first_dialogue_rows) \cap GroupsOf(second_dialogue_rows)

InGroup(rows, g)      == { i \in 1..Len(rows) : rows[i].shift_group = g }
ShiftsIn(rows, g)     == { rows[i].shift : i \in InGroup(rows, g) }
Holders(rows, g, s)   == { rows[i].teacher_name :
                             i \in { k \in InGroup(rows, g) : rows[k].shift = s } }
UniqueShifts(rows, g) ==
    \A i, j \in InGroup(rows, g) : rows[i].shift = rows[j].shift => i = j

\* the output rows of shift s of group g, and their kinds
OutOf(g, s) ==
    { k \in 1..Len(consolidated_rows) :
        consolidated_rows[k].shift_group = g /\ consolidated_rows[k].shift = s }
KindsOf(g, s) == { consolidated_rows[k].shift_type : k \in OutOf(g, s) }

InBoth(g, s) ==
    s \in ShiftsIn(first_dialogue_rows, g) \cap ShiftsIn(second_dialogue_rows, g)
Reassigned(g, s) ==
    /\ InBoth(g, s)
    /\ \E a \in Holders(first_dialogue_rows, g, s),
          b \in Holders(second_dialogue_rows, g, s) : a # b

UniqueInBoth(g) ==
    UniqueShifts(first_dialogue_rows, g) /\ UniqueShifts(second_dialogue_rows, g)

AllShifts(g) == ShiftsIn(first_dialogue_rows, g) \cup ShiftsIn(second_dialogue_rows, g)

\* C5 (as claimed): in a group present in both snapshots, with shifts unique
\* in each, every shift of before or after is in the output under exactly
\* one of the five kinds.
C5_ExactlyOneKind ==
    Reconciled =>
        \A g \in BothGroups : UniqueInBoth(g) =>
            \A s \in AllShifts(g) :
                KindsOf(g, s) \subseteq Kinds /\ Cardinality(KindsOf(g, s)) = 1

\* C5 (amended): every such shift is in the output; a shift whose teacher
\* differs between the snapshots is there under the two kinds Internal
\* Pickup and Dropped & Picked Up, every other shift under exactly one kind.
C5_OneKindUnlessReassigned ==
    Reconciled =>
        \A g \in BothGroups : UniqueInBoth(g) =>
            \A s \in AllShifts(g) :
                IF Reassigned(g, s)
                THEN KindsOf(g, s) = {"Internal Pickup", "Dropped & Picked Up"}
                ELSE KindsOf(g, s) \subseteq Kinds /\ Cardinality(KindsOf(g, s)) = 1

\* C5 witness: a reconciled group holds a reassigned shift and a shift whose
\* teacher stayed.
C5_Witness ==
    /\ rec_pc = "consolidated"
    /\ \E g \in BothGroups :
          /\ UniqueInBoth(g)
          /\ \E s1, s2 \in AllShifts(g) :
                /\ Reassigned(g, s1)
                /\ InBoth(g, s2) /\ ~Reassigned(g, s2)

\* the output rows of (g, s) are exactly one row, built from a row of rows
\* and typed kind
OneRowFrom(rows, g, s, kind) ==
    /\ Cardinality(OutOf(g, s)) = 1
    /\ \A k \in OutOf(g, s) :
          \E i \in InGroup(rows, g) :
              rows[i].shift = s /\ consolidated_rows[k] = Consolidated(rows[i], g, kind)

\* the output rows of (g, s) are exactly two: the after row as Internal
\* Pickup and the before row as Dropped & Picked Up
TwoRowsReassigned(g, s) ==
    /\ Cardinality(OutOf(g, s)) = 2
    /\ \E k1, k2 \in OutOf(g, s) :
          /\ k1 # k2
          /\ \E i \in InGroup(second_dialogue_rows, g) :
                /\ second_dialogue_rows[i].shift = s
                /\ consolidated_rows[k1] =
                     Consolidated(second_dialogue_rows[i], g, "Internal Pickup")
          /\ \E i \in InGroup(first_dialogue_rows, g) :
                /\ first_dialogue_rows[i].shift = s
                /\ consolidated_rows[k2] =
                     Consolidated(first_dialogue_rows[i], g, "Dropped & Picked Up")

RowsPerCase(g, s) ==
    IF Reassigned(g, s) THEN TwoRowsReassigned(g, s)
    ELSE IF InBoth(g, s) THEN OneRowFrom(second_dialogue_rows, g, s, "-")
    ELSE IF s \in ShiftsIn(first_dialogue_rows, g)
         THEN OneRowFrom(first_dialogue_rows, g, s, "Dropped")
    ELSE OneRowFrom(second_dialogue_rows, g, s, "Pickup")

\* C6: in a group of both snapshots, a shift with a different
\* teacher gives exactly two rows (after row Internal Pickup, before row
\* Dropped & Picked Up), a shift with the same teacher exactly one Unchanged
\* row, a shift only in before exactly one Dropped row, a shift only in
\* after exactly one Pickup row.
C6_RowsPerShift ==
    Reconciled => \A g \in BothGroups : \A s \in AllShifts(g) : RowsPerCase(g, s)

\* The rows per shift are as C6 says in the groups whose shift values are
\* unique within each snapshot: only a repeated shift breaks C6.
C6_RowsPerUniqueShift ==
    Reconciled =>
        \A g \in BothGroups : UniqueInBoth(g) =>
            \A s \in AllShifts(g) : RowsPerCase(g, s)

\* A reconciled group holds a reassigned shift and a shift that
\* is in the after snapshot only.
C6_Witness ==
    /\ rec_pc = "consolidated"
    /\ \E g \in BothGroups :
          /\ UniqueInBoth(g)
          /\ \E s1 \in AllShifts(g) : Reassigned(g, s1)
          /\ \E s2 \in AllShifts(g) : s2 \notin ShiftsIn(first_dialogue_rows, g)

AliceBobScenario ==
    /\ first_dialogue_rows  = << DialogueRowOf("A", "S1", "Alice") >>
    /\ second_dialogue_rows = << DialogueRowOf("A", "S1", "Bob") >>

OutFacts ==
    { << consolidated_rows[k].shift, consolidated_rows[k].teacher_name,
         consolidated_rows[k].shift_type >> : k \in 1..Len(consolidated_rows) }

\* C7 (as claimed): before = [A, S1, Alice], after = [A, S1, Bob] yields the
\* two rows (S1, Alice, Dropped) and (S1, Bob, Dropped & Picked Up).
C7_ScenarioAsClaimed ==
    (AliceBobScenario /\ rec_pc \in {"consolidated", "sorted", "filtered"})
        => /\ Len(consolidated_rows) = 2
           /\ OutFacts = { <<"S1", "Alice", "Dropped">>,
                           <<"S1", "Bob", "Dropped & Picked Up">> }

\* C7 (amended): the scenario yields exactly the two rows (S1, Bob, Internal
\* Pickup) and (S1, Alice, Dropped & Picked Up).
C7_ScenarioAmended ==
    (AliceBobScenario /\ rec_pc \in {"consolidated", "sorted", "filtered"})
        => /\ Len(consolidated_rows) = 2
           /\ OutFacts = { <<"S1", "Bob", "Internal Pickup">>,
                           <<"S1", "Alice", "Dropped & Picked Up">> }

\* C7 witness: the scenario has been reconciled, sorted and filtered.
C7_Witness == AliceBobScenario /\ rec_pc = "filtered"

\* C8: every output row belongs to a shift_group that has a row in both
\* filtered snapshots; a group of one snapshot only gives no row.
C8_OnlyGroupsOfBoth ==
    rec_pc \in {"consolidated", "sorted", "filtered"} =>
        \A k \in 1..Len(consolidated_rows) :
            consolidated_rows[k].shift_group \in BothGroups

\* C8 witness: group B has rows in the after snapshot only, group A is in
\* both and has been reconciled.
C8_Witness ==
    /\ rec_pc = "consolidated"
    /\ "B" \in GroupsOf(second_dialogue_rows) \ GroupsOf(first_dialogue_rows)
    /\ "A" \in BothGroups
    /\ Len(consolidated_rows) >= 1

\* C9: every row left by the second filter starts on the calendar day of the
\* reporting date, and so does the start_date that persistence binds for it;
\* a snapshot row admitted for its end date only is not among them.
C9_StartsOnReportingDate ==
    rec_pc = "filtered" =>
        \A k \in 1..Len(consolidated_rows) :
            LET row == consolidated_rows[k] IN
            /\ SameDay(ParseDay(row.start_date), ParseProcessDate(process_date))
            /\ SameDay(ScheduleKey(0, row).start_date, ParseProcessDate(process_date))

EndOnly(row) ==
    /\ SameDay(ParseDay(row.end_date), ParseProcessDate(process_date))
    /\ ~SameDay(ParseDay(row.start_date), ParseProcessDate(process_date))

\* C9 witness: the filter has run on a reconciled group whose after snapshot
\* holds a row admitted for its end date only, and another row is kept.
C9_Witness ==
    /\ rec_pc = "filtered"
    /\ \E i \in 1..Len(second_dialogue_rows) :
          /\ EndOnly(second_dialogue_rows[i])
          /\ second_dialogue_rows[i].shift_group \in BothGroups
    /\ Len(consolidated_rows) >= 1

(***************************************************************************)
(* Properties of row mapping                                               *)
(***************************************************************************)
\* the last non-blank cell of column col among the data rows up to sheet row r
LastCell(col, r, blank) ==
    LET filled == { k \in (TitleRows + 1)..r : sheet[k][col] # blank }
    IN  IF filled = {} THEN blank
        ELSE sheet[CHOOSE k \in filled : \A l \in filled : l <= k][col]

Carried(r) ==
    [shift_group  |-> LastCell(1, r, ""),
     shift        |-> LastCell(7, r, ""),
     teacher_name |-> LastCell(2, r, ""),
     start_date   |-> LastCell(5, r, Blank),
     end_date     |-> LastCell(6, r, Blank)]

SameHeader(a, b) == a.shift_group = b.shift_group /\ a.shift = b.shift

\* C10: after mapping, no two mapped rows of one shift_group
\* carry the same shift; rows sharing a header are merged into one.
C10_UniqueShiftPerGroup ==
    map_pc = "mapped" =>
        \A i, j \in 1..Len(first_dialogue_rows) :
            SameHeader(first_dialogue_rows[i], first_dialogue_rows[j]) => i = j

\* What the mapper does instead: every mapped row stands for a source row of
\* its own, in source order, with each column the last non-blank cell at or
\* above that row; nothing is merged: every source row lying between two
\* mapped ones whose carried dates touch the reporting date is mapped too,
\* so source rows sharing a header give several rows with the same shift.
C10_OneRowPerSourceRow ==
    map_pc = "mapped" =>
        /\ Len(mapped_src) = Len(first_dialogue_rows)
        /\ \A i, j \in 1..Len(mapped_src) : i < j => mapped_src[i] < mapped_src[j]
        /\ \A i \in 1..Len(mapped_src) :
              /\ mapped_src[i] \in (TitleRows + 1)..Len(sheet)
              /\ first_dialogue_rows[i] = Carried(mapped_src[i])
        /\ \A i, j \in 1..Len(mapped_src) :
              \A r \in mapped_src[i]..mapped_src[j] :
                  AdmitRow(Carried(r), process_date)
                      => \E k \in 1..Len(mapped_src) : mapped_src[k] = r

\* Two mapped rows have the same shift_group and shift, the
\* later one from a source row whose shift cell is blank.
C10_Witness ==
    /\ map_pc = "mapped"
    /\ \E i, j \in 1..Len(first_dialogue_rows) :
          /\ i < j
          /\ SameHeader(first_dialogue_rows[i], first_dialogue_rows[j])
          /\ sheet[mapped_src[j]][7] = ""

(***************************************************************************)
(* Properties of the mapping of both sheets                                *)
(***************************************************************************)
\* the last non-blank cell of column col among the data rows of sheet sh up
\* to its row r; none says there is no such cell
FilledUpTo(sh, col, r, blank) ==
    { k \in (TitleRows + 1)..r : sh[k][col] # blank }

LastCellOf(sh, col, r, blank) ==
    LET filled == FilledUpTo(sh, col, r, blank)
    IN  IF filled = {} THEN blank
        ELSE sh[CHOOSE k \in filled : \A l \in filled : l <= k][col]

CarriedOf(sh, r) ==
    [shift_group  |-> LastCellOf(sh, 1, r, ""),
     shift        |-> LastCellOf(sh, 7, r, ""),
     teacher_name |-> LastCellOf(sh, 2, r, ""),
     start_date   |-> LastCellOf(sh, 5, r, Blank),
     end_date     |-> LastCellOf(sh, 6, r, Blank)]

\* C11: the carry-forward state is empty when the mapping of the second sheet
\* begins, so every row mapped from the second sheet holds, in each column,
\* the last non-blank cell of the second sheet at or above it, or nothing:
\* never a value of the first sheet.
C11_SecondSheetStartsEmpty ==
    map_pc = "mapped_both" =>
        \A i \in 1..Len(second_dialogue_rows) :
            second_dialogue_rows[i] = CarriedOf(second_sheet, second_src[i])

\* a source row whose carried dates parse and touch the reporting date
Admissible(sh, r) ==
    /\ CanParseDay(CarriedOf(sh, r).start_date)
    /\ CanParseDay(CarriedOf(sh, r).end_date)
    /\ AdmitRow(CarriedOf(sh, r), process_date)

SourceRows(src) == { src[i] : i \in 1..Len(src) }

\* C12: of a sheet of R rows exactly the first 10 and the last 3 are left
\* out: the rows mapped are those of rows 11 .. R-3 that the date filter
\* admits.
C12_MapsAllButTitleAndSummary ==
    map_pc = "mapped" =>
        SourceRows(mapped_src) =
            { r \in (TitleRows + 1)..(Len(sheet) - SummaryRows) :
                  Admissible(sheet, r) }

\* value is the last non-blank cell of column col of sheet sh at or before
\* row r, when the column has such a cell
ColumnCarried(sh, r, value, col, blank) ==
    FilledUpTo(sh, col, r, blank) # {} => value = LastCellOf(sh, col, r, blank)

RowCarried(sh, r, row) ==
    /\ ColumnCarried(sh, r, row.shift_group, 1, "")
    /\ ColumnCarried(sh, r, row.shift, 7, "")
    /\ ColumnCarried(sh, r, row.teacher_name, 2, "")
    /\ ColumnCarried(sh, r, row.start_date, 5, Blank)
    /\ ColumnCarried(sh, r, row.end_date, 6, Blank)

SheetCarried(sh, src, rows) ==
    /\ Len(src) = Len(rows)
    /\ \A i, j \in 1..Len(src) : i < j => src[i] < src[j]
    /\ \A i \in 1..Len(src) : RowCarried(sh, src[i], rows[i])

\* C13: within one sheet every carry-forward column of an emitted row holds
\* the last non-blank cell of that column at or before its source row, and
\* the rows are emitted in source order.
C13_CarryForward ==
    /\ map_pc \in {"mapped", "mapped_both"} =>
          SheetCarried(sheet, mapped_src, first_dialogue_rows)
    /\ map_pc = "mapped_both" =>
          SheetCarried(second_sheet, second_src, second_dialogue_rows)

\* C13 witness: a block of three rows, shift_group filled on the first only,
\* is emitted as three rows of that group, and the second sheet is mapped too.
C13_Witness ==
    /\ map_pc = "mapped_both"
    /\ Len(second_dialogue_rows) >= 1
    /\ \E i \in 1..Len(mapped_src) :
          /\ i + 2 <= Len(mapped_src)
          /\ mapped_src[i + 1] = mapped_src[i] + 1
          /\ mapped_src[i + 2] = mapped_src[i] + 2
          /\ sheet[mapped_src[i]][1] = "A"
          /\ sheet[mapped_src[i + 1]][1] = ""
          /\ sheet[mapped_src[i + 2]][1] = ""
          /\ \A k \in i..(i + 2) : first_dialogue_rows[k].shift_group = "A"

(***************************************************************************)
(* Properties of the sort                                                  *)
(***************************************************************************)
\* a is not later than b, field by field
NotLater(a, b) ==
    LET x == << a.year, a.month, a.day, a.hour, a.minute >>
        y == << b.year, b.month, b.day, b.hour, b.minute >>
    IN  \/ x = y
        \/ \E k \in 1..5 : x[k] < y[k] /\ \A l \in 1..(k - 1) : x[l] = y[l]

\* row a may stand before row b: smaller group, or same group and smaller
\* teacher, or same group and teacher and a start that is not later
InOrder(a, b) ==
    \/ StrRank(a.shift_group) < StrRank(b.shift_group)
    \/ /\ a.shift_group = b.shift_group
       /\ \/ StrRank(a.teacher_name) < StrRank(b.teacher_name)
          \/ /\ a.teacher_name = b.teacher_name
             /\ NotLater(ParseDateTime(a.start_date), ParseDateTime(b.start_date))

\* C14: after the three sorts the rows are ordered by shift_group, then by
\* teacher_name, then by parsed start_date; the filter keeps that order.
C14_SortedByGroupTeacherStart ==
    rec_pc \in {"sorted", "filtered"} =>
        \A i, j \in 1..Len(consolidated_rows) :
            i < j => InOrder(consolidated_rows[i], consolidated_rows[j])

\* C14 witness: the sorted rows hold two rows of one group and teacher with
\* different starts and a row of another teacher.
C14_Witness ==
    /\ rec_pc = "sorted"
    /\ \E i, j, k \in 1..Len(consolidated_rows) :
          /\ i < j
          /\ consolidated_rows[i].shift_group = consolidated_rows[j].shift_group
          /\ consolidated_rows[i].teacher_name = consolidated_rows[j].teacher_name
          /\ consolidated_rows[i].start_date # consolidated_rows[j].start_date
          /\ consolidated_rows[k].teacher_name # consolidated_rows[i].teacher_name

(***************************************************************************)
(* Properties of the persistence of billing rows                           *)
(***************************************************************************)
SameKey(a, b) ==
    /\ a.teacher_name = b.teacher_name /\ a.shift = b.shift
    /\ a.activity_start = b.activity_start /\ a.activity_end = b.activity_end

NoDuplicateInvoices ==
    \A i, j \in 1..Len(invoices) : SameKey(invoices[i], invoices[j]) => i = j

\* the effect of finishing billing row row of a run whose counters go from
\* run to after
InvoiceWritten(run, after, row) ==
    IF \E i \in 1..Len(invoices) : SameKey(invoices[i], row)
    THEN /\ Len(invoices') = Len(invoices)
         /\ \A i \in 1..Len(invoices) :
               /\ [invoices'[i] EXCEPT !.eligible = invoices[i].eligible] = invoices[i]
               /\ IF SameKey(invoices[i], row)
                  THEN invoices'[i].eligible = row.eligible
                  ELSE invoices'[i] = invoices[i]
         /\ after.updated_invoices = run.updated_invoices + 1
         /\ after.inserted_invoices = run.inserted_invoices
    ELSE /\ Len(invoices') = Len(invoices) + 1
         /\ SubSeq(invoices', 1, Len(invoices)) = invoices
         /\ SameKey(invoices'[Len(invoices')], row)
         /\ invoices'[Len(invoices')].eligible = row.eligible
         /\ after.inserted_invoices = run.inserted_invoices + 1
         /\ after.updated_invoices = run.updated_invoices

C15_InvoiceStep ==
    \A r \in 1..Len(inv_runs) :
        (spawned' = spawned /\ inv_runs'[r] # inv_runs[r]) =>
            LET run == inv_runs[r]
                row == run.rows[run.i]
            IN  IF run.pc = "select"
                THEN /\ invoices' = invoices
                     /\ inv_runs'[r].updated_invoices = run.updated_invoices
                     /\ inv_runs'[r].inserted_invoices = run.inserted_invoices
                ELSE InvoiceWritten(run, inv_runs'[r], row)

\* C15: a billing row whose key is in the table rewrites the eligible field
\* of that invoice only and counts as updated; a row whose key is not there
\* adds exactly one invoice and counts as inserted; with runs that do not
\* overlap no two invoices have the same key.
C15_InvoiceUpsert == [](NoDuplicateInvoices) /\ [][C15_InvoiceStep]_vars

\* C15 witness: a run has ended that inserted an invoice and updated one,
\* next to an invoice of another key.
C15_Witness ==
    /\ Len(invoices) >= 2
    /\ \E r \in 1..Len(inv_runs) :
          /\ inv_runs[r].pc = "done"
          /\ inv_runs[r].inserted_invoices >= 1
          /\ inv_runs[r].updated_invoices >= 1

\* the last run repeats the export of the run before it, which was persisted
Reuploaded ==
    /\ Len(inv_runs) = 2
    /\ inv_runs[1].pc = "done"
    /\ inv_runs[2].pc = "done"
    /\ inv_runs[2].rows = inv_runs[1].rows

\* C16: re-uploading the same billing export leaves every invoice as it was,
\* inserts nothing and counts every processed billing row as updated.
C16_ReuploadChangesNothing ==
    Reuploaded =>
        /\ invoices = inv_runs[2].before
        /\ inv_runs[2].inserted_invoices = 0
        /\ inv_runs[2].skipped_invoices = 0
        /\ inv_runs[2].updated_invoices = Len(inv_runs[2].rows)

\* C16 witness: the export re-uploaded holds two rows of one key that differ
\* in eligibility.
C16_Witness ==
    /\ Reuploaded
    /\ \E i, j \in 1..Len(inv_runs[2].rows) :
          /\ i < j
          /\ SameKey(inv_runs[2].rows[i], inv_runs[2].rows[j])
          /\ inv_runs[2].rows[i].eligible # inv_runs[2].rows[j].eligible

(***************************************************************************)
(* Properties of failure handling                                          *)
(***************************************************************************)
\* C17: a query that fails on one row is recorded and the loop goes on with
\* the next row: no run of the teacher and schedule loop or of the invoice
\* loop is ended by a failed query, each still reaches its summary.
C17_FailureSkipsTheRow ==
    /\ \A t \in 1..Len(tasks) : tasks[t].pc # "failed"
    /\ \A r \in 1..Len(inv_runs) : inv_runs[r].pc # "failed"

\* Every schedule row points at a teacher row
ReferencesHold ==
    \A i \in 1..Len(schedules) :
        \E j \in 1..Len(teachers) : teachers[j].id = schedules[i].teacher_id

\* No step removes or rewrites a teacher row
TeachersKept ==
    /\ Len(teachers') >= Len(teachers)
    /\ SubSeq(teachers', 1, Len(teachers)) = teachers

\* C26: in every state, also after a run that a failed query has ended
\* part-way, the teacher_id of every schedule row is the id of a teacher row,
\* and no step deletes a teacher row.
C26_ReferentialIntegrity == [](ReferencesHold) /\ [][TeachersKept]_vars

\* C26 witness: a failed query has ended a run after it had inserted schedule
\* rows and a teacher whose schedule row was never written.
C26_Witness ==
    /\ \E t \in 1..Len(tasks) : tasks[t].pc = "failed"
    /\ Len(schedules) >= 1
    /\ \E j \in 1..Len(teachers) :
          \A i \in 1..Len(schedules) : schedules[i].teacher_id # teachers[j].id

\* The records of a billing export whose activity_start is on the date
OnDate(records, pd) ==
    { k \in 1..Len(records) :
        /\ CanParseStamp(GetStamp(records[k], 7))
        /\ SameDay(ParseStamp(GetStamp(records[k], 7)), ParseProcessDate(pd)) }

\* Rows of the teacher and schedule loop whose teacher step, and whose
\* schedule step, is over
TeacherStepsDone(task) ==
    IF task.pc = "done" THEN Len(task.rows)
    ELSE IF task.pc \in {"select_teacher", "insert_teacher"} THEN task.i - 1
    ELSE task.i

ScheduleStepsDone(task) ==
    IF task.pc = "done" THEN Len(task.rows) ELSE task.i - 1

InvoiceStepsDone(run) ==
    IF run.pc = "done" THEN Len(run.rows) ELSE run.i - 1

\* The teacher and schedule loop has reached the summary of lines 1122-1134
RunCompleted(t) == tasks[t].pc = "done"

\* C27: every row handled has incremented exactly one counter of each group:
\* new_teachers + skipped_teachers and new_shifts + skipped_shifts count the
\* rows handled so far and, when the run completes, the rows that passed the
\* start-date filter; inserted + updated + skipped invoices count the
\* billing rows handled and, at the end, those of the reporting date.
C27_CountersAddUp ==
    /\ \A t \in 1..Len(tasks) :
          tasks[t].pc \notin {"failed", "panicked"} =>
             /\ tasks[t].new_teachers + tasks[t].skipped_teachers
                   = TeacherStepsDone(tasks[t])
             /\ tasks[t].new_shifts + tasks[t].skipped_shifts
                   = ScheduleStepsDone(tasks[t])
    /\ \A r \in 1..Len(inv_runs) :
          inv_runs[r].pc # "panicked" =>
             inv_runs[r].inserted_invoices + inv_runs[r].updated_invoices
                + inv_runs[r].skipped_invoices = InvoiceStepsDone(inv_runs[r])
    /\ (Len(inv_runs) >= 1 /\ inv_runs[Len(inv_runs)].pc = "done") =>
          Len(inv_runs[Len(inv_runs)].rows)
             = Cardinality(OnDate(invoicing_sheet, inv_runs[Len(inv_runs)].date))

\* C27 witness: a run has completed whose invoice loop inserted one row and
\* skipped one on a failed query, and whose teacher and schedule loop went
\* over two rows of one teacher.
C27_Witness ==
    /\ \E t \in 1..Len(tasks) :
          /\ RunCompleted(t)
          /\ Len(tasks[t].rows) = 2
          /\ tasks[t].new_teachers = 1
          /\ tasks[t].skipped_teachers = 1
    /\ Len(inv_runs) = 1
    /\ inv_runs[1].pc = "counted"
    /\ inv_runs[1].inserted_invoices = 1
    /\ inv_runs[1].skipped_invoices = 1

\* C18: a roster row that is too short or whose date text cannot be parsed
\* is skipped and the rest of the file is still mapped: the mapping of a
\* sheet is never aborted.
C18_BadRowIsSkipped == map_pc # "panicked"

(***************************************************************************)
(* Properties of runs for different dates                                  *)
(***************************************************************************)
\* C20 (as claimed): when the tasks of two requests for different reporting
\* dates have ended, however their queries interleaved, the tables are as
\* after running one task after the other: no two teacher rows have one name
\* and no two schedule rows have one full key.
C20_DatesIndependent ==
    (Len(tasks) = 2 /\ tasks[1].date # tasks[2].date /\ AllEnded)
        => (NoDuplicateTeachers /\ NoDuplicateSchedules)

(***************************************************************************)
(* Properties of staging                                                   *)
(***************************************************************************)
\* C19: a task reads the staged files only when no store_files call is
\* truncating or writing them: no task fails to open a file, and the files a
\* task has read are complete and of one upload.
C19_ReadsAfterStaging ==
    \A r \in 1..Len(readers) :
        /\ readers[r].pc # "panicked"
        /\ \A k \in 1..Len(readers[r].seen) :
              /\ readers[r].seen[k].complete
              /\ readers[r].seen[k].upload = readers[r].seen[1].upload

(***************************************************************************)
(* Properties of storing the upload                                        *)
(***************************************************************************)
\* C30 (as claimed): the task of a request is spawned, and the request
\* acknowledged, only if each of its three files was written completely; a
\* request with a file whose write failed is answered with the error.
C30_SpawnsOnlyAfterCompleteWrite ==
    \A q \in 1..Len(requests) :
        requests[q].pc \in {"stored", "spawned"} => requests[q].written = 3

(***************************************************************************)
(* Properties of the consolidated report                                   *)
(***************************************************************************)
\* C29 (as claimed): the report succeeds for every persisted schedule set
\* and window, with one line per schedule row in range, one summary per
\* teacher and a Total whose scheduled count is the number of rows in range.
C29_ReportSucceeds ==
    consolidated.pc # "idle" =>
        /\ consolidated.pc = "done"
        /\ Len(consolidated.csv_lines) = Len(consolidated.schedules_for_range)
        /\ \A k \in 1..Len(consolidated.table_teachers) :
              consolidated.csv_lines[k].summary.teacher = consolidated.table_teachers[k]
        /\ consolidated.csv_lines[Len(consolidated.table_teachers) + 1].summary.scheduled
              = Len(consolidated.schedules_for_range)

\* No step removes or rewrites a schedule row
SchedulesKept ==
    /\ Len(schedules') >= Len(schedules)
    /\ SubSeq(schedules', 1, Len(schedules)) = schedules

\* The rows of the schedules table of a teacher that the range query selects
PersistedRowsOf(teacher) ==
    { i \in 1..Len(schedules) :
        /\ InRange(schedules[i], consolidated.start_date, consolidated.end_date, "A")
        /\ TeacherNameOf(teachers, schedules[i].teacher_id) = teacher }

ReportCountsEveryRow ==
    consolidated.pc = "done" =>
        \A k \in 1..Len(consolidated.table_teachers) :
            consolidated.csv_lines[k].summary.scheduled
                = Cardinality(PersistedRowsOf(consolidated.table_teachers[k]))

\* C28: no step of a run deletes or rewrites a schedule row, so the rows a
\* run persisted stay when the date is run again with another snapshot, and
\* the consolidated report counts every persisted row of a teacher in the
\* range, the rows that differ in shift_type only included.
C28_SchedulesOnlyGrow == [](ReportCountsEveryRow) /\ [][SchedulesKept]_vars

\* C28 witness: after a second run with another snapshot, one teacher's
\* shift is persisted under two shift_type values, and the report has counted
\* both.
C28_Witness ==
    /\ consolidated.pc = "done"
    /\ \E i, j \in 1..Len(schedules) :
          /\ schedules[i].shift_type # schedules[j].shift_type
          /\ [schedules[i] EXCEPT !.shift_type = "", !.id = 0]
                = [schedules[j] EXCEPT !.shift_type = "", !.id = 0]
          /\ \E k \in 1..Len(consolidated.table_teachers) :
                /\ {i, j} \subseteq PersistedRowsOf(consolidated.table_teachers[k])
                /\ consolidated.csv_lines[k].summary.scheduled >= 2

(***************************************************************************)
(* Determinism of reconciliation                                           *)
(***************************************************************************)
\* The orders in which the hash map of line 708 can yield the groups
GroupOrders == Orders(GroupsOf(first_dialogue_rows))

\* C25: the reconciled rows, once sorted and once filtered, are the same
\* sequence for every order in which the hash map yields the shift groups.
C25_Deterministic ==
    /\ rec_pc = "sorted" =>
          \A order \in GroupOrders :
              consolidated_rows =
                  SortRows(ConsolidateGroups(order, first_dialogue_rows,
                                             second_dialogue_rows))
    /\ rec_pc = "filtered" =>
          \A order \in GroupOrders :
              consolidated_rows =
                  Pipeline(order, first_dialogue_rows, second_dialogue_rows,
                           process_date)

\* C25 witness: two groups were reconciled, the rows before the sort depend
\* on the order of the groups, and the run has ended with rows of both.
C25_Witness ==
    /\ rec_pc = "filtered"
    /\ \E o1, o2 \in GroupOrders :
          ConsolidateGroups(o1, first_dialogue_rows, second_dialogue_rows)
              # ConsolidateGroups(o2, first_dialogue_rows, second_dialogue_rows)
    /\ Cardinality(GroupsOf(consolidated_rows)) = 2

(***************************************************************************)
(* Properties of the efficiency report                                     *)
(***************************************************************************)
\* The schedule rows of the teacher and day of an EfficiencyDay record
RowsOfRecord(rec) ==
    SchedulesOfDay(efficiency.schedules_for_range, rec.teacher_name, rec.date)

\* C21 (as claimed): no day of the report aborts on its unsigned arithmetic,
\* and every EfficiencyDay record has scheduled = 2 x (schedule rows of the
\* teacher starting that day) and variance = taught - scheduled - no_shows
\* as a signed number.
C21_SignedVariance ==
    /\ efficiency.pc # "panicked"
    /\ efficiency.pc \in {"days", "csv", "done"} =>
          \A k \in 1..Len(efficiency.table_days_efficiencies) :
              LET rec == efficiency.table_days_efficiencies[k] IN
              /\ rec.scheduled = 2 * Len(RowsOfRecord(rec))
              /\ rec.variance = rec.taught - rec.scheduled - rec.no_shows

\* The pairs (schedule row of the record, invoice row) with one shift label
LabelMatches(rec, eligible) ==
    { m \in (1..Len(RowsOfRecord(rec))) \X (1..Len(invoices)) :
        /\ invoices[m[2]].shift = RowsOfRecord(rec)[m[1]].shift
        /\ invoices[m[2]].eligible = eligible }

\* C22: in every EfficiencyDay record, taught is the number of pairs of a
\* schedule row of that teacher starting that day and an eligible invoice
\* row with the same shift text, whatever the invoice's date or teacher, and
\* no_shows the number of such pairs with an invoice that is not eligible.
C22_JoinOnLabelAlone ==
    efficiency.pc \in {"days", "csv", "done"} =>
        \A k \in 1..Len(efficiency.table_days_efficiencies) :
            LET rec == efficiency.table_days_efficiencies[k] IN
            /\ rec.taught = Cardinality(LabelMatches(rec, TRUE))
            /\ rec.no_shows = Cardinality(LabelMatches(rec, FALSE))

\* C22 witness: a record of Alice counts an invoice of Bob, of another day,
\* as a no-show next to her own eligible invoice.
C22_Witness ==
    /\ efficiency.pc = "done"
    /\ \E k \in 1..Len(efficiency.table_days_efficiencies) :
          LET rec == efficiency.table_days_efficiencies[k] IN
          /\ rec.teacher_name = "Alice"
          /\ rec.taught = 1
          /\ rec.no_shows = 1
          /\ \E j \in 1..Len(invoices) : invoices[j].teacher_name = "Bob"

\* C23 (as claimed): the divisor total_scheduled is never 0 when the
\* percentage of a teacher of the report is computed: no summary holds the
\* NaN or the infinity of a division by zero.
C23_NoDivisionByZero ==
    efficiency.pc \in {"days", "csv", "done"} =>
        \A k \in 1..Len(efficiency.table_summary) :
            efficiency.table_summary[k].percentage_variance.kind = "finite"

\* C24 (as claimed): the day loop emits one EfficiencyDay per teacher and
\* calendar day of the window and no second one, also for a window that
\* ends on the last representable date.
C24_OneRecordPerDay ==
    efficiency.pc \in {"days", "csv", "done"} =>
        \A j, k \in 1..Len(efficiency.table_days_efficiencies) :
            LET a == efficiency.table_days_efficiencies[j]
                b == efficiency.table_days_efficiencies[k]
            IN  (a.teacher_name = b.teacher_name /\ a.date = b.date) => j = k

====
